---- MODULE Spec2Model ----
(***************************************************************************)
(* Model of the shape3d game server (src/unnamed/part_002, the completion- *)
(* driven server): the request handlers /api/init, /api/join and           *)
(* /api/place running concurrently against one session of the key-value    *)
(* store.  Every redis.get / redis.set / redis.del and every realtime.send *)
(* is one atomic step; the code between two awaits is one step.            *)
(*                                                                         *)
(* Encoding of the store.  getGameState reads an absent key and the JSON   *)
(* text it would hold for an empty value alike ([] for the three lists,    *)
(* null for the challenge, 0 for the round), so the model keeps one value  *)
(* per key: <<>> for an absent or empty list, NoChallenge for an absent or *)
(* null challenge, 0 for an absent round.  generateId() returns a value    *)
(* never returned before: the model derives it from the number of the      *)
(* request that asks for it.  Date.now() is a clock in ticks that never    *)
(* runs backwards.                                                         *)
(***************************************************************************)
EXTENDS Integers, Sequences, FiniteSets, TLC

\* ------------------------------------------------------------------------
\* Program constants
\* ------------------------------------------------------------------------
TOTAL_ROUNDS == 5

GRID_SIZE == 20

\* the attempts of the sampling loop of one slot
maxAttempts == 100

\* ------------------------------------------------------------------------
\* Bounds of the model.  Spec runs the handlers concurrently, SpecSeq runs
\* one request at a time; the bounds ending in Seq are those of SpecSeq.
\* ------------------------------------------------------------------------
\* concurrent request handlers
NumProcs == 2

\* user names that reddit.getCurrentUsername() can return
NumPlayers == 2

\* grid cells that the place requests target (the first cells of Cells)
NumCells == 2

NumCellsSeq == 3

\* grid cells that getRandomPosition() returns (the first cells of Cells)
NumSampleCells == 6

\* of the cells that collide with nothing, in the order of Cells, those on
\* which a sampling loop can end
NumDraws == 1

\* shape kinds (a prefix of the enumeration) that requests and
\* getRandomShape() use
NumTypes == 1

NumTypesSeq == 2

\* colors (a prefix of the enumeration) that requests and getRandomColor() use
NumColors == 1

\* requests started in one behaviour
MaxRequests == 2

MaxRequestsSeq == 3

\* challenges created by createChallenge in one behaviour; in SpecSeq the
\* requests started and the challenges created are MaxRequestsSeq together
MaxCreated == 2

MaxCreatedSeq == 1

\* slots of a challenge whose sampling loop may run out of attempts although
\* a sampled cell is free
MaxRunOut == 0

MaxRunOutSeq == 1

\* ticks by which the clock may have advanced when Date.now() is called
MaxTick == 0

MaxTickSeq == 1

\* last value of the clock
MaxClock == 11

\* SpecPost: grid cells that the place requests target, requests started
NumCellsPost == 3

MaxRequestsPost == 3

\* SpecFail: requests started, store operations that throw in one request,
\* publications that throw in one request
MaxRequestsFail == 2

MaxStoreFail == 2

MaxSendFail == 2

\* SpecSample: grid cells that getRandomPosition() returns
NumSampleCellsLoop == 4

\* SpecRange: positions outside the grid that the place requests target
NumOutsideRange == 2

\* SpecTimer: timers armed with setTimeout in one behaviour
MaxTimersLegacy == 5

\* SpecLife: grid cells that getRandomPosition() returns, grid cells that the
\* place requests target, requests started, requests among them that place
\* no shape, challenges created by createChallenge
NumSampleCellsLife == 15

NumCellsLife == 16

MaxRequestsLife == 17

MaxOtherLife == 1

MaxCreatedLife == 5

Min(a, b) == IF a < b THEN a ELSE b

Max(a, b) == IF a < b THEN b ELSE a

Procs == 1..NumProcs

AllPlayers == <<"alice", "bob", "carol">>

ShapeTypes == <<"cube", "triangle", "sphere">>

ShapeColors == <<"red", "blue", "green", "yellow", "purple", "orange">>

Types(n) == {ShapeTypes[i] : i \in 1..Min(n, Len(ShapeTypes))}

Colors == {ShapeColors[i] : i \in 1..Min(NumColors, Len(ShapeColors))}

\* what bounds a specification: the users that send requests, the cells they
\* target, the shape kinds in use, the requests and challenges of a
\* behaviour, the outcomes of the sampling loops, the ticks of the clock,
\* the cells that getRandomPosition() returns
ConcBounds(p) ==
  [users |-> {AllPlayers[Min(p, Len(AllPlayers))]}, cells |-> NumCells,
   types |-> Types(NumTypes),
   maxRequests |-> MaxRequests, maxCreated |-> MaxCreated,
   budget |-> MaxRequests + MaxCreated,
   runOut |-> MaxRunOut, draws |-> NumDraws, ticks |-> MaxTick,
   samples |-> NumSampleCells, outside |-> 0]

SeqBounds ==
  [users |-> {AllPlayers[i] : i \in 1..Min(NumPlayers, Len(AllPlayers))},
   cells |-> NumCellsSeq, types |-> Types(NumTypesSeq),
   maxRequests |-> MaxRequestsSeq, maxCreated |-> MaxCreatedSeq,
   budget |-> MaxRequestsSeq,
   runOut |-> MaxRunOutSeq, draws |-> NumDraws, ticks |-> MaxTickSeq,
   samples |-> NumSampleCells, outside |-> 0]

\* SpecPost: one user, whose requests run one at a time
PostBounds ==
  [users |-> {AllPlayers[1]}, cells |-> NumCellsPost,
   types |-> Types(NumTypes),
   maxRequests |-> MaxRequestsPost, maxCreated |-> MaxCreatedSeq,
   budget |-> MaxRequestsPost + MaxCreatedSeq,
   runOut |-> MaxRunOut, draws |-> NumDraws, ticks |-> MaxTick,
   samples |-> NumSampleCells, outside |-> 0]

\* SpecFail: one user, whose requests run one at a time
FailBounds ==
  [users |-> {AllPlayers[1]}, cells |-> NumCells,
   types |-> Types(NumTypes),
   maxRequests |-> MaxRequestsFail, maxCreated |-> MaxCreatedSeq,
   budget |-> MaxRequestsFail + MaxCreatedSeq,
   runOut |-> MaxRunOut, draws |-> NumDraws, ticks |-> MaxTick,
   samples |-> NumSampleCells, outside |-> 0]

\* SpecLife: one user, whose requests run one at a time, on a grid wide
\* enough for the challenges of all rounds
LifeBounds ==
  [users |-> {AllPlayers[1]}, cells |-> NumCellsLife,
   types |-> Types(NumTypes),
   maxRequests |-> MaxRequestsLife, maxCreated |-> MaxCreatedLife,
   budget |-> MaxRequestsLife + MaxCreatedLife,
   runOut |-> MaxRunOut, draws |-> NumDraws, ticks |-> MaxTick,
   samples |-> NumSampleCellsLife, outside |-> 0]

\* SpecRange: one user, whose requests run one at a time and may name
\* positions outside the grid
RangeBounds ==
  [users |-> {AllPlayers[1]}, cells |-> NumCells,
   types |-> Types(NumTypes),
   maxRequests |-> MaxRequests, maxCreated |-> MaxCreatedSeq,
   budget |-> MaxRequests + MaxCreatedSeq,
   runOut |-> MaxRunOut, draws |-> NumDraws, ticks |-> MaxTick,
   samples |-> NumSampleCells, outside |-> NumOutsideRange]

Pos(x, y, z) == [x |-> x, y |-> y, z |-> z]

\* the cells in use, all inside the grid of getRandomPosition
Cells ==
  << Pos(0, 0, 0), Pos(1, 0, 0), Pos(0, 0, 1), Pos(0, 1, 0),
     Pos(1, 1, 0), Pos(1, 0, 1), Pos(0, 1, 1), Pos(1, 1, 1),
     Pos(0, 2, 0), Pos(1, 2, 0), Pos(0, 2, 1), Pos(1, 2, 1),
     Pos(0, 3, 0), Pos(1, 3, 0), Pos(0, 3, 1), Pos(1, 3, 1),
     Pos(0, 4, 0), Pos(1, 4, 0) >>

half == GRID_SIZE \div 2

Grid == [x : (0 - half)..(half - 1), y : 0..10, z : (0 - half)..(half - 1)]

RequestCells(n) == {Cells[i] : i \in 1..Min(n, Len(Cells))}

\* positions outside the grid: x too large, y too large, z too small
OutsideCells == << Pos(half, 0, 0), Pos(0, 11, 0), Pos(0, 0, 0 - half - 1) >>

\* the body of a place request is not validated: its position can be one
\* of the first n positions outside the grid
RequestOutside(n) == {OutsideCells[i] : i \in 1..Min(n, Len(OutsideCells))}

\* the first n cells of Cells
getRandomPosition(n) == {Cells[i] : i \in 1..Min(n, Len(Cells))} \cap Grid

getRandomColor == Colors

\* ------------------------------------------------------------------------
\* Values
\* ------------------------------------------------------------------------
NoChallenge ==
  [id |-> 0, positions |-> <<>>, shapes |-> <<>>, colors |-> <<>>,
   startTime |-> 0, duration |-> 0]

EmptyState ==
  [shapes |-> <<>>, currentChallenge |-> NoChallenge, players |-> <<>>,
   leaderboard |-> <<>>, currentRound |-> 0]

isActive(gameState) == gameState.currentRound < TOTAL_ROUNDS

Range(s) == {s[i] : i \in 1..Len(s)}

\* ------------------------------------------------------------------------
\* Pure functions of the server
\* ------------------------------------------------------------------------
samePosition(a, b) == a.x = b.x /\ a.y = b.y /\ a.z = b.z

\* the comparison with the y and z tests reading the wrong coordinate
isPositionOccupied_wrongAxis(shapes, position) ==
  \E i \in 1..Len(shapes) :
    /\ shapes[i].position.x = position.x
    /\ shapes[i].position.x = position.y
    /\ shapes[i].position.x = position.z

\* the comparison made with the shape placed last only
isPositionOccupied_lastOnly(shapes, position) ==
  /\ shapes # <<>>
  /\ samePosition(shapes[Len(shapes)].position, position)

\* the test that finds every position free
isPositionOccupied_never(shapes, position) == FALSE

isPositionOccupied(shapes, position) ==
  \E i \in 1..Len(shapes) :
    /\ shapes[i].position.x = position.x
    /\ shapes[i].position.y = position.y
    /\ shapes[i].position.z = position.z

\* Array.prototype.findIndex over the slot positions: the first index whose
\* position equals pos, 0 for -1
findIndex(positions, pos) ==
  IF \E i \in 1..Len(positions) : samePosition(positions[i], pos)
  THEN CHOOSE i \in 1..Len(positions) :
         /\ samePosition(positions[i], pos)
         /\ \A j \in 1..(i - 1) : ~samePosition(positions[j], pos)
  ELSE 0

\* the slot test on the position alone
matchesSlotOf_positionOnly(challenge, shape) ==
  findIndex(challenge.positions, shape.position) # 0

matchesSlotOf(challenge, shape) ==
  LET challengeIndex == findIndex(challenge.positions, shape.position)
  IN  /\ challengeIndex # 0
      /\ shape.type = challenge.shapes[challengeIndex]
      /\ shape.color = challenge.colors[challengeIndex]

isValidChallengeMove(gameState, shape) ==
  /\ gameState.currentChallenge # NoChallenge
  /\ matchesSlotOf(gameState.currentChallenge, shape)

isFirstPlacementInChallenge(gameState, currentShape) ==
  /\ gameState.currentChallenge # NoChallenge
  /\ LET challenge == gameState.currentChallenge
         validPlacements ==
           {i \in 1..Len(gameState.shapes) :
              /\ gameState.shapes[i].id # currentShape.id
              /\ ~(gameState.shapes[i].timestamp < challenge.startTime)
              /\ matchesSlotOf(challenge, gameState.shapes[i])}
     IN  Cardinality(validPlacements) = 0

\* the comparator with the scores subtracted the other way round
compareScores_ascending(a, b) ==
  IF a.score # b.score THEN a.score - b.score
  ELSE a.lastPlacement - b.lastPlacement

\* the comparator of the leaderboard sort: negative when a goes before b
compareScores(a, b) ==
  IF a.score # b.score THEN b.score - a.score
  ELSE a.lastPlacement - b.lastPlacement

\* Array.prototype.sort is stable: insert e behind every entry that does not
\* compare greater than it
RECURSIVE insertSorted(_, _)
insertSorted(sorted, e) ==
  IF sorted = <<>> THEN <<e>>
  ELSE IF compareScores(Head(sorted), e) > 0
       THEN <<e>> \o sorted
       ELSE <<Head(sorted)>> \o insertSorted(Tail(sorted), e)

RECURSIVE sortLeaderboard(_)
sortLeaderboard(lb) ==
  IF lb = <<>> THEN <<>>
  ELSE insertSorted(sortLeaderboard(SubSeq(lb, 1, Len(lb) - 1)), lb[Len(lb)])

\* a score update that pushes a new entry whether or not the player has one
updatePlayerScore_alwaysPush(gameState, playerId, bonusPoints, t) ==
  [gameState EXCEPT
     !.leaderboard =
        sortLeaderboard(Append(@, [playerId |-> playerId,
                                   score |-> bonusPoints,
                                   lastPlacement |-> t]))]

\* updatePlayerScore with the value t that its Date.now() returns
updatePlayerScore(gameState, playerId, bonusPoints, t) ==
  LET lb0 == gameState.leaderboard
      lb1 == IF \E i \in 1..Len(lb0) : lb0[i].playerId = playerId
             THEN lb0
             ELSE Append(lb0, [playerId |-> playerId, score |-> 0,
                               lastPlacement |-> 0])
      k   == CHOOSE i \in 1..Len(lb1) :
               /\ lb1[i].playerId = playerId
               /\ \A j \in 1..(i - 1) : lb1[j].playerId # playerId
      lb2 == [lb1 EXCEPT ![k] = [playerId |-> playerId,
                                 score |-> lb1[k].score + bonusPoints,
                                 lastPlacement |-> t]]
  IN  [gameState EXCEPT !.leaderboard = sortLeaderboard(lb2)]

\* the completion check answering true as soon as one slot is satisfied
checkChallengeCompletion_anySlot(gameState) ==
  /\ gameState.currentChallenge # NoChallenge
  /\ LET challenge == gameState.currentChallenge
     IN  \E i \in 1..Len(challenge.positions) :
           \E j \in 1..Len(gameState.shapes) :
             /\ samePosition(gameState.shapes[j].position, challenge.positions[i])
             /\ gameState.shapes[j].type = challenge.shapes[i]
             /\ gameState.shapes[j].color = challenge.colors[i]

\* the test without the kind and the color of the shape
checkChallengeCompletion_positionsOnly(gameState) ==
  /\ gameState.currentChallenge # NoChallenge
  /\ LET challenge == gameState.currentChallenge
     IN  \A i \in 1..Len(challenge.positions) :
           \E j \in 1..Len(gameState.shapes) :
             samePosition(gameState.shapes[j].position, challenge.positions[i])

checkChallengeCompletion(gameState) ==
  /\ gameState.currentChallenge # NoChallenge
  /\ LET challenge == gameState.currentChallenge
     IN  \A i \in 1..Len(challenge.positions) :
           \E j \in 1..Len(gameState.shapes) :
             /\ samePosition(gameState.shapes[j].position, challenge.positions[i])
             /\ gameState.shapes[j].type = challenge.shapes[i]
             /\ gameState.shapes[j].color = challenge.colors[i]

\* lines 413-442 of the place handler on the state it read: the new shape is
\* appended and, for a valid move, its player is scored (t is the value of
\* Date.now() inside updatePlayerScore, called in the same tick as the one
\* that stamps the shape)
\* placeShape_noBonus is the handler giving 1 point to every valid move
placeShape_noBonus(gameState, newShape, t) ==
  LET isValidMove == isValidChallengeMove(gameState, newShape)
      pushed == [gameState EXCEPT !.shapes = Append(@, newShape)]
  IN  IF isValidMove
      THEN updatePlayerScore(pushed, newShape.playerId, 1, t)
      ELSE pushed

placeShape(gameState, newShape, t) ==
  LET isValidMove == isValidChallengeMove(gameState, newShape)
      isFirstPlacement ==
        isValidMove /\ isFirstPlacementInChallenge(gameState, newShape)
      pushed == [gameState EXCEPT !.shapes = Append(@, newShape)]
  IN  IF isValidMove
      THEN updatePlayerScore(pushed, newShape.playerId,
                             IF isFirstPlacement THEN 2 ELSE 1, t)
      ELSE pushed

\* the sampling loop of one slot (do ... while with maxAttempts): the loop
\* leaves with the first sample that collides with nothing, or with its last
\* sample, whatever it is, once the samples before it have all collided.
\* runsOut tells whether the loop may run out of attempts while a sampled
\* cell is free, b.draws bounds the free cells it can end on, b.samples the
\* cells that are sampled
cellIndex(q) == CHOOSE i \in 1..Len(Cells) : Cells[i] = q

slotPositions(shapes, positions, runsOut, b) ==
  LET collides(q) ==
        \/ isPositionOccupied(shapes, q)
        \/ \E i \in 1..Len(positions) : samePosition(positions[i], q)
      free == {q \in getRandomPosition(b.samples) : ~collides(q)}
      drawn == {q \in free :
                  Cardinality({r \in free : cellIndex(r) < cellIndex(q)})
                    < b.draws}
  IN  IF runsOut \/ free = {} THEN getRandomPosition(b.samples) ELSE drawn

\* ------------------------------------------------------------------------
\* State
\* ------------------------------------------------------------------------
VARIABLES
  store,      \* the session's keys in redis
  now,        \* the wall clock, in ticks
  timer,      \* per handler: the tick at which its setTimeout runs out
  pc,         \* per handler: the store operation it is waiting for
  cont,       \* per handler: the code that runs when the operation is done
  kidx,       \* per handler: the key that Promise.all reaches next
  snap,       \* per handler: the result of its running getGameState
  gs,         \* per handler: the gameState object of the route
  req,        \* per handler: its request and what it has done so far
  started,    \* number of requests started
  created,    \* number of challenges created by createChallenge
  responses,  \* the responses sent
  channel,    \* the messages published with realtime.send, in order
  finished,   \* the session was answered as complete with no request left
  boot,       \* initializeGameForPost: where it stands, the sets it has made
  loop,       \* the slot generation of a challenge, sample by sample
  legacy      \* the timers of the timer-based server (part_001)

vars ==
  <<store, now, timer, pc, cont, kidx, snap, gs, req, started, created,
    responses, channel, finished, boot, loop, legacy>>

\* no slot generation is modelled sample by sample
NoLoop ==
  [caller |-> "none", pc |-> "done", i |-> 0, attempts |-> 0,
   positions |-> <<>>, challenge |-> NoChallenge, total |-> 0,
   sawFree |-> FALSE, clean |-> TRUE]

\* the timer-based server before it has been started
NoLegacy ==
  [players |-> {}, round |-> 0, challenge |-> FALSE, registered |-> 0,
   pending |-> {}, armed |-> 0, stopped |-> "no", firedAfter |-> FALSE]

\* the keys in the order in which getGameState and saveGameState list them
Keys == <<"shapes", "currentChallenge", "players", "leaderboard", "currentRound">>

NoRequest ==
  [kind |-> "none", seq |-> 0, playerId |-> "", type |-> "", color |-> "",
   position |-> Pos(0, 0, 0), afterFinish |-> FALSE, writes |-> 0,
   sends |-> 0, readState |-> EmptyState, shapeId |-> 0,
   isFirstPlacement |-> FALSE, completes |-> FALSE, exhausted |-> FALSE,
   storeFailed |-> 0, sendsFailed |-> 0, newRound |-> 0]

\* generateId() for the shape of request r and for the challenge created
\* on behalf of request r
shapeIdOf(r) == 100 + r.seq

challengeIdOf(r) == 200 + r.seq

scoreOf(leaderboard, playerId) ==
  IF \E i \in 1..Len(leaderboard) : leaderboard[i].playerId = playerId
  THEN LET i == CHOOSE i \in 1..Len(leaderboard) :
                  leaderboard[i].playerId = playerId
       IN  leaderboard[i].score
  ELSE 0

\* the response res.json sends for request r with the state it carries; the
\* fields from readState on record what the request read and did (newRound:
\* the round for which its createChallenge made a challenge)
Response(r, success, message, gameState) ==
  [seq |-> r.seq, kind |-> r.kind, playerId |-> r.playerId,
   type |-> r.type, color |-> r.color, position |-> r.position,
   success |-> success, message |-> message,
   isFirstPlacement |-> r.isFirstPlacement, gameState |-> gameState,
   readState |-> r.readState, shapeId |-> r.shapeId,
   completes |-> r.completes, afterFinish |-> r.afterFinish,
   writes |-> r.writes, sends |-> r.sends,
   storeFailed |-> r.storeFailed, sendsFailed |-> r.sendsFailed,
   newRound |-> r.newRound]

\* ------------------------------------------------------------------------
\* Initial states: a session as initializeGameForPost and the rounds played
\* so far leave it.  The challenges of the rounds before initRound lay on
\* cells at height 5 + round and were completed at tick 0; the challenge of
\* initRound started at tick 1 and lies on the cells 2, 4 and 1 of Cells.
\* Slot n of round j is filled by playerOf(j, n); alice has joined, nobody
\* has joined the new session.
\* ------------------------------------------------------------------------
playerOf(j, n) == AllPlayers[1 + ((j + n) % 2)]

challengeOfRound(j, initRound) ==
  IF j < initRound
  THEN [id |-> j,
        positions |-> <<Pos(0, 5 + j, 0), Pos(1, 5 + j, 0), Pos(0, 5 + j, 1)>>,
        shapes |-> <<ShapeTypes[1], ShapeTypes[1], ShapeTypes[1]>>,
        colors |-> <<ShapeColors[1], ShapeColors[1], ShapeColors[1]>>,
        startTime |-> 0, duration |-> 0]
  ELSE [id |-> j,
        positions |-> <<Cells[2], Cells[4], Cells[1]>>,
        shapes |-> <<ShapeTypes[1], ShapeTypes[2], ShapeTypes[1]>>,
        colors |-> <<ShapeColors[1], ShapeColors[1], ShapeColors[1]>>,
        startTime |-> 1, duration |-> 0]

\* the session after the first n slots of its challenge were filled at tick t
RECURSIVE fillSlots(_, _, _)
fillSlots(gameState, n, t) ==
  IF n = 0 THEN gameState
  ELSE LET before == fillSlots(gameState, n - 1, t)
           c == before.currentChallenge
       IN  placeShape(before,
                      [id |-> 10 * c.id + n, type |-> c.shapes[n],
                       color |-> c.colors[n], position |-> c.positions[n],
                       playerId |-> playerOf(c.id, n), timestamp |-> t], t)

\* the session when the challenge of round j has been created
RECURSIVE sessionAt(_, _)
sessionAt(j, initRound) ==
  LET before == IF j = 1
                THEN [EmptyState EXCEPT !.players = <<AllPlayers[1]>>]
                ELSE fillSlots(sessionAt(j - 1, initRound), 3, 0)
  IN  [before EXCEPT !.currentRound = j,
                     !.currentChallenge = challengeOfRound(j, initRound)]

\* a new session; round 4 and round 5 with one slot left to fill; all rounds
\* played and the last challenge cleared
InitSessions ==
  { [sessionAt(1, 1) EXCEPT !.players = <<>>],
    fillSlots(sessionAt(TOTAL_ROUNDS - 1, TOTAL_ROUNDS - 1), 2, 1),
    fillSlots(sessionAt(TOTAL_ROUNDS, TOTAL_ROUNDS), 2, 1),
    [fillSlots(sessionAt(TOTAL_ROUNDS, TOTAL_ROUNDS + 1), 3, 0)
       EXCEPT !.currentChallenge = NoChallenge] }

\* the keys in the order in which initializeGameForPost sets them: the round,
\* the challenge, then the Promise.all of the three lists
BootKeys == <<"currentRound", "currentChallenge", "shapes", "players", "leaderboard">>

sessionFinished(gameState) ==
  /\ gameState.currentRound = TOTAL_ROUNDS
  /\ gameState.currentChallenge = NoChallenge

Init ==
  /\ store \in InitSessions
  /\ now = 1
  /\ timer = [p \in Procs |-> 0]
  /\ pc = [p \in Procs |-> "idle"]
  /\ cont = [p \in Procs |-> "none"]
  /\ kidx = [p \in Procs |-> 0]
  /\ snap = [p \in Procs |-> EmptyState]
  /\ gs = [p \in Procs |-> EmptyState]
  /\ req = [p \in Procs |-> NoRequest]
  /\ started = 0
  /\ created = 0
  /\ responses = {}
  /\ channel = <<>>
  /\ finished = sessionFinished(store)
  /\ boot = [pc |-> "returned", sets |-> Len(BootKeys)]
  /\ loop = NoLoop
  /\ legacy = NoLegacy

\* ------------------------------------------------------------------------
\* Requests
\* ------------------------------------------------------------------------
\* the requests that can arrive
Requests(b) ==
  [kind : {"place"}, playerId : b.users, type : b.types, color : Colors,
   position : RequestCells(b.cells) \cup RequestOutside(b.outside)]
  \cup
  [kind : {"join"}, playerId : b.users, type : {""}, color : {""},
   position : {Pos(0, 0, 0)}]
  \cup
  [kind : {"init"}, playerId : {AllPlayers[1]}, type : {""}, color : {""},
   position : {Pos(0, 0, 0)}]

\* the values a call of Date.now() can return: time may have passed since
\* the clock was last read
DateNow(b) == now..Min(now + b.ticks, MaxClock)

\* getGameState, Promise.all of the gets: the result once the last key,
\* the round, has been read too
Snapshot(p) == [snap[p] EXCEPT !.currentRound = store.currentRound]

LastRead(p, c) == pc[p] = "get" /\ kidx[p] = Len(Keys) /\ cont[p] = c

\* the handler starts getGameState and runs c when it is done
AwaitGet(p, c) ==
  /\ pc' = [pc EXCEPT ![p] = "get"]
  /\ kidx' = [kidx EXCEPT ![p] = 1]
  /\ cont' = [cont EXCEPT ![p] = c]
  /\ snap' = [snap EXCEPT ![p] = EmptyState]

\* res.json: the handler answers and is done.  The session is finished when
\* its last challenge was cleared and no request is left in progress
Respond(p, response) ==
  /\ responses' = responses \cup {response}
  /\ finished' = (finished \/
                   /\ sessionFinished(store)
                   /\ \A q \in Procs \ {p} : pc[q] = "idle")
  /\ pc' = [pc EXCEPT ![p] = "idle"]
  /\ cont' = [cont EXCEPT ![p] = "none"]
  /\ kidx' = [kidx EXCEPT ![p] = 0]
  /\ snap' = [snap EXCEPT ![p] = EmptyState]
  /\ gs' = [gs EXCEPT ![p] = EmptyState]
  /\ req' = [req EXCEPT ![p] = NoRequest]

\* ------------------------------------------------------------------------
\* Actions
\* ------------------------------------------------------------------------
\* a request arrives and its handler awaits getGameState
Begin(p, b) ==
  /\ pc[p] = "idle"
  /\ started < b.maxRequests
  /\ started + created < b.budget
  /\ \E r \in Requests(b) :
       /\ req' = [req EXCEPT ![p] =
                    [NoRequest EXCEPT !.kind = r.kind, !.seq = started + 1,
                                      !.playerId = r.playerId,
                                      !.type = r.type, !.color = r.color,
                                      !.position = r.position,
                                      !.afterFinish = finished]]
       /\ AwaitGet(p, r.kind)
  /\ started' = started + 1
  /\ UNCHANGED <<store, now, timer, gs, created, responses, channel, finished>>
  /\ UNCHANGED <<boot, loop, legacy>>

\* getGameState: one redis.get of the Promise.all, not the last
ReadKey(p) ==
  /\ pc[p] = "get"
  /\ kidx[p] < Len(Keys)
  /\ snap' = [snap EXCEPT ![p][Keys[kidx[p]]] = store[Keys[kidx[p]]]]
  /\ kidx' = [kidx EXCEPT ![p] = @ + 1]
  /\ UNCHANGED <<store, now, timer, pc, cont, gs, req, started, created, responses,
                 channel, finished>>
  /\ UNCHANGED <<boot, loop, legacy>>

\* GET /api/init: the snapshot is returned
InitRespond(p) ==
  /\ LastRead(p, "init")
  /\ Respond(p, Response([req[p] EXCEPT !.readState = Snapshot(p)], TRUE, "",
                         Snapshot(p)))
  /\ UNCHANGED <<store, now, timer, started, created, channel>>
  /\ UNCHANGED <<boot, loop, legacy>>

\* a join that starts a challenge when the session has none
joinState_startsChallenge(gameState, playerId) ==
  [gameState EXCEPT
     !.players = Append(@, playerId),
     !.currentChallenge =
        IF @ = NoChallenge
        THEN [id |-> 1, positions |-> <<Cells[6], Cells[7], Cells[8]>>,
              shapes |-> <<ShapeTypes[1], ShapeTypes[1], ShapeTypes[1]>>,
              colors |-> <<ShapeColors[1], ShapeColors[1], ShapeColors[1]>>,
              startTime |-> now, duration |-> 0]
        ELSE @]

\* a join that clears the challenge
joinState_clearsChallenge(gameState, playerId) ==
  [gameState EXCEPT !.players = Append(@, playerId),
                    !.currentChallenge = NoChallenge]

\* the test of line 364 answering that nobody has joined
alreadyJoined_never(gameState, playerId) == FALSE

\* POST /api/join, line 364
alreadyJoined(gameState, playerId) == playerId \in Range(gameState.players)

\* POST /api/join, line 365
joinState(gameState, playerId) ==
  [gameState EXCEPT !.players = Append(@, playerId)]

\* POST /api/join, lines 361-367
JoinMain(p) ==
  /\ LastRead(p, "join")
  /\ LET gameState == Snapshot(p)
     IN  /\ req' = [req EXCEPT ![p].readState = gameState]
         /\ IF ~alreadyJoined(gameState, req[p].playerId)
            THEN /\ gs' = [gs EXCEPT ![p] =
                             joinState(gameState, req[p].playerId)]
                 /\ pc' = [pc EXCEPT ![p] = "save"]
                 /\ kidx' = [kidx EXCEPT ![p] = 1]
                 /\ cont' = [cont EXCEPT ![p] = "join"]
                 /\ snap' = [snap EXCEPT ![p] = EmptyState]
            ELSE /\ gs' = gs
                 /\ AwaitGet(p, "join2")
  /\ UNCHANGED <<store, now, timer, started, created, responses, channel, finished>>
  /\ UNCHANGED <<boot, loop, legacy>>

\* POST /api/join, lines 370-376
JoinRespond(p) ==
  /\ LastRead(p, "join2")
  /\ Respond(p, Response(req[p], TRUE, "", Snapshot(p)))
  /\ UNCHANGED <<store, now, timer, started, created, channel>>
  /\ UNCHANGED <<boot, loop, legacy>>

\* POST /api/place, lines 400-442
PlaceMain(p, b) ==
  /\ LastRead(p, "place")
  /\ LET gameState == Snapshot(p)
         request == [req[p] EXCEPT !.readState = gameState]
     IN  IF isPositionOccupied(gameState.shapes, request.position)
         THEN /\ Respond(p, Response(request, FALSE, "occupied", gameState))
              /\ now' = now
         ELSE \E t1 \in DateNow(b) :
                LET newShape ==
                      [id |-> shapeIdOf(request), type |-> request.type,
                       color |-> request.color,
                       position |-> request.position,
                       playerId |-> request.playerId, timestamp |-> t1]
                    isValidMove == isValidChallengeMove(gameState, newShape)
                    isFirstPlacement ==
                      /\ isValidMove
                      /\ isFirstPlacementInChallenge(gameState, newShape)
                IN    /\ gs' = [gs EXCEPT ![p] =
                                  placeShape(gameState, newShape, t1)]
                      /\ req' = [req EXCEPT ![p] =
                                   [request EXCEPT
                                      !.shapeId = newShape.id,
                                      !.isFirstPlacement = isFirstPlacement]]
                      /\ now' = t1
                      /\ pc' = [pc EXCEPT ![p] = "save"]
                      /\ kidx' = [kidx EXCEPT ![p] = 1]
                      /\ cont' = [cont EXCEPT ![p] = "place"]
                      /\ snap' = [snap EXCEPT ![p] = EmptyState]
                      /\ UNCHANGED <<responses, finished>>
  /\ UNCHANGED <<store, timer, started, created, channel>>
  /\ UNCHANGED <<boot, loop, legacy>>

\* saveGameState: one redis.set of the Promise.all; createChallenge saves its
\* own gameState (kept in snap), the routes save theirs (gs).  After the last
\* set the caller goes on: the place route publishes, the join route reads
\* the state again, createChallenge returns and the place route waits 50 ms
WriteKey(p) ==
  /\ pc[p] = "save"
  /\ LET gameState == IF cont[p] = "create" THEN snap[p] ELSE gs[p]
         key == Keys[kidx[p]]
     IN  store' = [store EXCEPT ![key] = gameState[key]]
  /\ req' = [req EXCEPT ![p].writes = @ + 1]
  /\ IF kidx[p] < Len(Keys)
     THEN /\ kidx' = [kidx EXCEPT ![p] = @ + 1]
          /\ UNCHANGED <<pc, cont, snap>>
     ELSE IF cont[p] = "place"
     THEN /\ pc' = [pc EXCEPT ![p] = "send"]
          /\ cont' = [cont EXCEPT ![p] = "shapePlace"]
          /\ kidx' = [kidx EXCEPT ![p] = 0]
          /\ snap' = snap
     ELSE IF cont[p] = "join"
     THEN AwaitGet(p, "join2")
     ELSE /\ pc' = [pc EXCEPT ![p] = "delay"]
          /\ cont' = [cont EXCEPT ![p] = "new"]
          /\ kidx' = [kidx EXCEPT ![p] = 0]
          /\ snap' = [snap EXCEPT ![p] = EmptyState]
  /\ timer' = [timer EXCEPT ![p] =
                 IF kidx[p] = Len(Keys) /\ cont[p] = "create"
                 THEN now + 1 ELSE @]
  /\ UNCHANGED <<now, gs, started, created, responses, channel, finished>>
  /\ UNCHANGED <<boot, loop, legacy>>

\* every event is published with the tag of the placement event
Message_alwaysShapePlace(type, r, gameState) ==
  [type |-> "shapePlace", seq |-> r.seq, shapeId |-> r.shapeId,
   isFirstPlacement |-> r.isFirstPlacement,
   currentRound |-> gameState.currentRound,
   challengeId |-> gameState.currentChallenge.id]

\* the events of lines 449-455, 479-482 and 493-496; seq names the request
\* that publishes the event
Message(type, r, gameState) ==
  [type |-> type, seq |-> r.seq, shapeId |-> r.shapeId,
   isFirstPlacement |-> r.isFirstPlacement,
   currentRound |-> gameState.currentRound,
   challengeId |-> gameState.currentChallenge.id]

\* POST /api/place, lines 464-468 and, when the challenge is not completed,
\* the response of lines 503-511
AfterShapePlace(p, request) ==
  IF gs[p].currentChallenge # NoChallenge /\ checkChallengeCompletion(gs[p])
  THEN /\ req' = [req EXCEPT ![p] = [request EXCEPT !.completes = TRUE]]
       /\ pc' = [pc EXCEPT ![p] = "del"]
       /\ UNCHANGED <<gs, cont, kidx, snap, responses, finished>>
  ELSE Respond(p, Response(request, TRUE, "placed", gs[p]))

\* POST /api/place, lines 447-458, and what follows the publication
SendShapePlace(p) ==
  /\ pc[p] = "send"
  /\ cont[p] = "shapePlace"
  /\ channel' = Append(channel, Message("shapePlace", req[p], gs[p]))
  /\ AfterShapePlace(p, [req[p] EXCEPT !.sends = @ + 1])
  /\ UNCHANGED <<store, now, timer, started, created>>
  /\ UNCHANGED <<boot, loop, legacy>>

\* completeChallengeAndScheduleNext, line 75: the challenge key is deleted
DelChallenge(p) ==
  /\ pc[p] = "del"
  /\ store' = [store EXCEPT !.currentChallenge = NoChallenge]
  /\ req' = [req EXCEPT ![p].writes = @ + 1]
  /\ pc' = [pc EXCEPT ![p] = "delay"]
  /\ cont' = [cont EXCEPT ![p] = "cc"]
  /\ timer' = [timer EXCEPT ![p] = now + 1]
  /\ UNCHANGED <<now, kidx, snap, gs, started, created, responses, channel,
                 finished>>
  /\ UNCHANGED <<boot, loop, legacy>>

\* the setTimeout of line 78 (100 ms) or of line 472 (50 ms) has run out;
\* the handler awaits getGameState (line 81 or line 475).  Of the state read
\* at line 81 only the round is used, the gets of its other keys are left out
Delay(p) ==
  /\ pc[p] = "delay"
  /\ timer[p] <= MaxClock
  /\ now' = Max(now, timer[p])
  /\ timer' = [timer EXCEPT ![p] = 0]
  /\ pc' = [pc EXCEPT ![p] = "get"]
  /\ kidx' = [kidx EXCEPT ![p] = IF cont[p] = "cc" THEN Len(Keys) ELSE 1]
  /\ snap' = [snap EXCEPT ![p] = EmptyState]
  /\ cont' = cont
  /\ UNCHANGED <<store, gs, req, started, created, responses, channel, finished>>
  /\ UNCHANGED <<boot, loop, legacy>>

\* completeChallengeAndScheduleNext, lines 81-109: with rounds left
\* createChallenge is called and awaits its getGameState (line 173); without,
\* null is returned and the route awaits getGameState (lines 488-492)
CompleteCheck(p) ==
  /\ LastRead(p, "cc")
  /\ LET gameState == Snapshot(p)
     IN  IF gameState.currentRound < TOTAL_ROUNDS
         THEN AwaitGet(p, "create")
         ELSE AwaitGet(p, "done")
  /\ UNCHANGED <<store, now, timer, gs, req, started, created, responses, channel, finished>>
  /\ UNCHANGED <<boot, loop, legacy>>

\* the guard of line 176 with > in place of >=
roundsExhausted_off(gameState) == gameState.currentRound > TOTAL_ROUNDS

\* createChallenge without the guard of line 176
roundsExhausted_missing(gameState) == FALSE

\* createChallenge, line 176
roundsExhausted(gameState) == gameState.currentRound >= TOTAL_ROUNDS

\* createChallenge without the increment of the round
advanceRound_none(gameState) == gameState

\* createChallenge incrementing the round twice
advanceRound_twice(gameState) == [gameState EXCEPT !.currentRound = @ + 2]

\* createChallenge, line 180
advanceRound(gameState) == [gameState EXCEPT !.currentRound = @ + 1]

\* a new challenge that starts on an empty grid
withChallenge_clearsShapes(gameState, challenge) ==
  [gameState EXCEPT !.currentChallenge = challenge, !.shapes = <<>>]

\* createChallenge, line 213
withChallenge(gameState, challenge) ==
  [gameState EXCEPT !.currentChallenge = challenge]

\* createChallenge, lines 173-216, up to the first set of saveGameState
CreateMain(p, b) ==
  /\ LastRead(p, "create")
  /\ LET gameState == Snapshot(p)
     IN  IF roundsExhausted(gameState)
         THEN /\ AwaitGet(p, "done")
              /\ req' = [req EXCEPT ![p].exhausted = TRUE]
              /\ UNCHANGED <<now, created>>
         ELSE /\ created < b.maxCreated
              /\ started + created < b.budget
              /\ \E e \in {f \in [1..3 -> BOOLEAN] :
                          Cardinality({i \in 1..3 : f[i]}) <= b.runOut} :
                  \E p1 \in slotPositions(gameState.shapes, <<>>, e[1], b) :
                  \E p2 \in slotPositions(gameState.shapes, <<p1>>, e[2], b) :
                  \E p3 \in slotPositions(gameState.shapes, <<p1, p2>>, e[3],
                                            b) :
                  \E shapes \in [1..3 -> b.types] :
                  \E colors \in [1..3 -> getRandomColor] :
                  \E t \in DateNow(b) :
                    LET challenge ==
                          [id |-> challengeIdOf(req[p]), positions |-> <<p1, p2, p3>>,
                           shapes |-> shapes, colors |-> colors,
                           startTime |-> t, duration |-> 0]
                    IN  /\ snap' = [snap EXCEPT ![p] =
                                      withChallenge(advanceRound(gameState),
                                                    challenge)]
                        /\ now' = t
                        /\ pc' = [pc EXCEPT ![p] = "save"]
                        /\ kidx' = [kidx EXCEPT ![p] = 1]
                        /\ cont' = [cont EXCEPT ![p] = "create"]
                        /\ created' = created + 1
                        /\ req' = [req EXCEPT ![p].newRound =
                                     advanceRound(gameState).currentRound]
  /\ UNCHANGED <<store, timer, gs, started, responses, channel, finished>>
  /\ UNCHANGED <<boot, loop, legacy>>

\* POST /api/place, line 475 (a challenge was created) or line 492 (none):
\* the state read is what the broadcast and the response will carry
UpdatedRead(p) ==
  /\ pc[p] = "get"
  /\ kidx[p] = Len(Keys)
  /\ cont[p] \in {"new", "done"}
  /\ snap' = [snap EXCEPT ![p] = Snapshot(p)]
  /\ pc' = [pc EXCEPT ![p] = "send"]
  /\ cont' = [cont EXCEPT ![p] =
                IF cont[p] = "new" THEN "newChallenge" ELSE "gameComplete"]
  /\ kidx' = [kidx EXCEPT ![p] = 0]
  /\ UNCHANGED <<store, now, timer, gs, req, started, created, responses, channel,
                 finished>>
  /\ UNCHANGED <<boot, loop, legacy>>

\* POST /api/place, lines 479-482 or 493-496, and the response of lines
\* 503-511
SendTransition(p) ==
  /\ pc[p] = "send"
  /\ cont[p] \in {"newChallenge", "gameComplete"}
  /\ channel' = Append(channel, Message(cont[p], req[p], snap[p]))
  /\ Respond(p, Response([req[p] EXCEPT !.sends = @ + 1], TRUE, "placed",
                         snap[p]))
  /\ UNCHANGED <<store, now, timer, started, created>>
  /\ UNCHANGED <<boot, loop, legacy>>

Next ==
  \E p \in Procs :
    \/ Begin(p, ConcBounds(p))
    \/ ReadKey(p)
    \/ InitRespond(p)
    \/ JoinMain(p)
    \/ JoinRespond(p)
    \/ PlaceMain(p, ConcBounds(p))
    \/ WriteKey(p)
    \/ SendShapePlace(p)
    \/ DelChallenge(p)
    \/ Delay(p)
    \/ CompleteCheck(p)
    \/ CreateMain(p, ConcBounds(p))
    \/ UpdatedRead(p)
    \/ SendTransition(p)

\* any interleaving of the handlers; handler p serves the p-th user
Spec == Init /\ [][Next]_vars

NextSeq ==
  \/ Begin(1, SeqBounds)
  \/ ReadKey(1)
  \/ InitRespond(1)
  \/ JoinMain(1)
  \/ JoinRespond(1)
  \/ PlaceMain(1, SeqBounds)
  \/ WriteKey(1)
  \/ SendShapePlace(1)
  \/ DelChallenge(1)
  \/ Delay(1)
  \/ CompleteCheck(1)
  \/ CreateMain(1, SeqBounds)
  \/ UpdatedRead(1)
  \/ SendTransition(1)

\* the requests processed one at a time
SpecSeq == Init /\ [][NextSeq]_vars

NextRange ==
  \/ Begin(1, RangeBounds)
  \/ ReadKey(1)
  \/ InitRespond(1)
  \/ JoinMain(1)
  \/ JoinRespond(1)
  \/ PlaceMain(1, RangeBounds)
  \/ WriteKey(1)
  \/ SendShapePlace(1)
  \/ DelChallenge(1)
  \/ Delay(1)
  \/ CompleteCheck(1)
  \/ CreateMain(1, RangeBounds)
  \/ UpdatedRead(1)
  \/ SendTransition(1)

\* the requests of one user, one at a time, with place requests that name
\* positions inside and outside the grid
SpecRange == Init /\ [][NextRange]_vars

\* ------------------------------------------------------------------------
\* Failures of the store and of the realtime transport
\* ------------------------------------------------------------------------
\* an error thrown by realtime.send is caught next to the call (lines
\* 460-462, 483-485, 497-499)
sendCaught_never(type) == FALSE

sendCaught(type) == TRUE

\* the catch block of the route (lines 377-383, 512-518): the response is
\* built with another getGameState
Catch(p, request) ==
  /\ req' = [req EXCEPT ![p] = request]
  /\ AwaitGet(p, "catch")
  /\ UNCHANGED <<gs, responses, finished>>

\* realtime.send of line 458 throws
SendShapePlaceThrows(p) ==
  /\ pc[p] = "send"
  /\ cont[p] = "shapePlace"
  /\ req[p].sendsFailed < MaxSendFail
  /\ LET request == [req[p] EXCEPT !.sendsFailed = @ + 1]
     IN  IF sendCaught("shapePlace")
         THEN AfterShapePlace(p, request)
         ELSE Catch(p, request)
  /\ UNCHANGED <<store, now, timer, started, created, channel, boot,
                 loop, legacy>>

\* realtime.send of line 479 or of line 493 throws
SendTransitionThrows(p) ==
  /\ pc[p] = "send"
  /\ cont[p] \in {"newChallenge", "gameComplete"}
  /\ req[p].sendsFailed < MaxSendFail
  /\ LET request == [req[p] EXCEPT !.sendsFailed = @ + 1]
     IN  IF sendCaught(cont[p])
         THEN Respond(p, Response(request, TRUE, "placed", snap[p]))
         ELSE Catch(p, request)
  /\ UNCHANGED <<store, now, timer, started, created, channel, boot,
                 loop, legacy>>

\* a redis.get of the running getGameState throws, and getGameState with it.
\* GET /api/init answers with the error (lines 340-345); the join and place
\* routes go to their catch block, also from completeChallengeAndScheduleNext
\* (line 81) and from line 475; createChallenge's error is caught at lines
\* 104-106 and null is returned; the error of line 492 is caught at lines
\* 497-499 and the response carries the route's gameState, whose challenge
\* line 488 has set to null; an error inside the catch block is caught by
\* nothing and the request is never answered
GetThrows(p) ==
  /\ pc[p] = "get"
  /\ req[p].storeFailed < MaxStoreFail
  /\ LET request == [req[p] EXCEPT !.storeFailed = @ + 1]
     IN  IF cont[p] = "init"
         THEN Respond(p, Response(request, FALSE, "error", EmptyState))
         ELSE IF cont[p] = "create"
         THEN /\ req' = [req EXCEPT ![p] = request]
              /\ AwaitGet(p, "done")
              /\ UNCHANGED <<gs, responses, finished>>
         ELSE IF cont[p] = "done"
         THEN Respond(p, Response(request, TRUE, "placed",
                                  [gs[p] EXCEPT !.currentChallenge = NoChallenge]))
         ELSE IF cont[p] = "catch"
         THEN /\ req' = [req EXCEPT ![p] = request]
              /\ pc' = [pc EXCEPT ![p] = "crashed"]
              /\ UNCHANGED <<cont, kidx, snap, gs, responses, finished>>
         ELSE Catch(p, request)
  /\ UNCHANGED <<store, now, timer, started, created, channel, boot,
                 loop, legacy>>

\* a redis.set of the running saveGameState throws, and saveGameState with
\* it; the sets of the Promise.all that have not reached the store are taken
\* to fail with it.  The routes go to their catch block, createChallenge's
\* error is caught at lines 104-106 and null is returned
SaveThrows(p) ==
  /\ pc[p] = "save"
  /\ req[p].storeFailed < MaxStoreFail
  /\ LET request == [req[p] EXCEPT !.storeFailed = @ + 1]
     IN  IF cont[p] = "create"
         THEN /\ req' = [req EXCEPT ![p] = request]
              /\ AwaitGet(p, "done")
              /\ UNCHANGED <<gs, responses, finished>>
         ELSE Catch(p, request)
  /\ UNCHANGED <<store, now, timer, started, created, channel, boot,
                 loop, legacy>>

\* the redis.del of line 75 throws
DelThrows(p) ==
  /\ pc[p] = "del"
  /\ req[p].storeFailed < MaxStoreFail
  /\ Catch(p, [req[p] EXCEPT !.storeFailed = @ + 1])
  /\ UNCHANGED <<store, now, timer, started, created, channel, boot,
                 loop, legacy>>

\* a redis.del of lines 91-94 throws, before createChallenge is called
CountdownDelThrows(p) ==
  /\ pc[p] = "get"
  /\ cont[p] = "create"
  /\ kidx[p] = 1
  /\ req[p].storeFailed < MaxStoreFail
  /\ Catch(p, [req[p] EXCEPT !.storeFailed = @ + 1])
  /\ UNCHANGED <<store, now, timer, started, created, channel, boot,
                 loop, legacy>>

\* the catch block of the route has read the session: lines 378-382, 513-517
CatchRespond(p) ==
  /\ LastRead(p, "catch")
  /\ Respond(p, Response(req[p], FALSE, "error", Snapshot(p)))
  /\ UNCHANGED <<store, now, timer, started, created, channel, boot,
                 loop, legacy>>

NextFail ==
  \/ Begin(1, FailBounds)
  \/ ReadKey(1)
  \/ InitRespond(1)
  \/ JoinMain(1)
  \/ JoinRespond(1)
  \/ PlaceMain(1, FailBounds)
  \/ WriteKey(1)
  \/ SendShapePlace(1)
  \/ DelChallenge(1)
  \/ Delay(1)
  \/ CompleteCheck(1)
  \/ CreateMain(1, FailBounds)
  \/ UpdatedRead(1)
  \/ SendTransition(1)
  \/ SendShapePlaceThrows(1)
  \/ SendTransitionThrows(1)
  \/ GetThrows(1)
  \/ SaveThrows(1)
  \/ DelThrows(1)
  \/ CountdownDelThrows(1)
  \/ CatchRespond(1)

\* the requests of one user, one at a time, with a store and a realtime
\* transport that can throw
SpecFail == Init /\ [][NextFail]_vars

\* ------------------------------------------------------------------------
\* Post creation: createPost submits the post and then awaits
\* initializeGameForPost, whose failure it logs and swallows
\* ------------------------------------------------------------------------
\* the sampling loop of initializeGameForPost: a sample collides with the
\* slots chosen before it, there are no shapes to collide with
firstSlotPositions(positions, runsOut, b) ==
  slotPositions(<<>>, positions, runsOut, b)

\* the post has been submitted, initializeGameForPost is about to run
InitPost ==
  /\ store = EmptyState
  /\ now = 1
  /\ timer = [p \in Procs |-> 0]
  /\ pc = [p \in Procs |-> "idle"]
  /\ cont = [p \in Procs |-> "none"]
  /\ kidx = [p \in Procs |-> 0]
  /\ snap = [p \in Procs |-> EmptyState]
  /\ gs = [p \in Procs |-> EmptyState]
  /\ req = [p \in Procs |-> NoRequest]
  /\ started = 0
  /\ created = 0
  /\ responses = {}
  /\ channel = <<>>
  /\ finished = FALSE
  /\ boot = [pc |-> "running", sets |-> 0]
  /\ loop = NoLoop
  /\ legacy = NoLegacy

\* initializeGameForPost, lines 119-157: its next redis.set; the challenge is
\* generated before the second one
Initialize(b) ==
  /\ boot.pc = "running"
  /\ LET key == BootKeys[boot.sets + 1]
     IN  IF key = "currentRound"
         THEN /\ store' = [store EXCEPT !.currentRound = 1]
              /\ now' = now
         ELSE IF key = "currentChallenge"
         THEN \E e \in {f \in [1..3 -> BOOLEAN] :
                          Cardinality({i \in 1..3 : f[i]}) <= b.runOut} :
              \E p1 \in firstSlotPositions(<<>>, e[1], b) :
              \E p2 \in firstSlotPositions(<<p1>>, e[2], b) :
              \E p3 \in firstSlotPositions(<<p1, p2>>, e[3], b) :
              \E shapes \in [1..3 -> b.types] :
              \E colors \in [1..3 -> getRandomColor] :
              \E t \in DateNow(b) :
                /\ store' = [store EXCEPT !.currentChallenge =
                               [id |-> 1, positions |-> <<p1, p2, p3>>,
                                shapes |-> shapes, colors |-> colors,
                                startTime |-> t, duration |-> 0]]
                /\ now' = t
         ELSE /\ store' = [store EXCEPT ![key] = <<>>]
              /\ now' = now
  /\ boot' = [pc |-> IF boot.sets + 1 = Len(BootKeys)
                     THEN "returned" ELSE "running",
              sets |-> boot.sets + 1]
  /\ UNCHANGED <<timer, pc, cont, kidx, snap, gs, req, started, created,
                 responses, channel, finished, loop, legacy>>

\* the next redis.set of initializeGameForPost throws: the error is thrown
\* on (line 167) and createPost logs it (post.ts, lines 59-64); the sets
\* made so far stay
InitializeThrows ==
  /\ boot.pc = "running"
  /\ boot' = [boot EXCEPT !.pc = "thrown"]
  /\ UNCHANGED <<store, now, timer, pc, cont, kidx, snap, gs, req, started,
                 created, responses, channel, finished, loop, legacy>>

NextPost ==
  \/ Initialize(PostBounds)
  \/ InitializeThrows
  \/ Begin(1, PostBounds)
  \/ ReadKey(1)
  \/ InitRespond(1)
  \/ JoinMain(1)
  \/ JoinRespond(1)
  \/ PlaceMain(1, PostBounds)
  \/ WriteKey(1)
  \/ SendShapePlace(1)
  \/ DelChallenge(1)
  \/ Delay(1)
  \/ CompleteCheck(1)
  \/ CreateMain(1, PostBounds)
  \/ UpdatedRead(1)
  \/ SendTransition(1)

\* a new post: initializeGameForPost runs while the requests of a user, one
\* at a time, reach the post
SpecPost == InitPost /\ [][NextPost]_vars

\* ------------------------------------------------------------------------
\* Properties
\* ------------------------------------------------------------------------
\* the place requests answered with success
accepted == {r \in responses : r.kind = "place" /\ r.success}

\* the slots of a challenge that a shape satisfies: position, kind and color
slotsOf(challenge, shape) ==
  {i \in 1..Len(challenge.positions) :
     /\ challenge.positions[i] = shape.position
     /\ challenge.shapes[i] = shape.type
     /\ challenge.colors[i] = shape.color}

\* the slots of a challenge that none of the shapes satisfies
openSlots(challenge, shapes) ==
  {i \in 1..Len(challenge.positions) :
     \A k \in 1..Len(shapes) : i \notin slotsOf(challenge, shapes[k])}

\* C1: no two shapes of the stored shape list share a position
NoSharedPosition ==
  \A i, j \in 1..Len(store.shapes) :
    i # j => store.shapes[i].position # store.shapes[j].position

\* C1: two place requests for one cell ran concurrently, both were accepted
\* and the store holds a shape on that cell
NoSharedPositionWitness ==
  \E r1, r2 \in accepted :
    /\ r1.seq # r2.seq
    /\ r1.position = r2.position
    /\ \E i \in 1..Len(store.shapes) : store.shapes[i].position = r1.position

\* C2: a place request whose position is the position of a shape in the
\* state it read is answered success = false with the occupied message and
\* the state it read, and has written nothing and published nothing
OccupiedIsRejected ==
  \A r \in responses :
    ( /\ r.kind = "place"
      /\ \E i \in 1..Len(r.readState.shapes) :
           r.readState.shapes[i].position = r.position )
    => /\ ~r.success
       /\ r.message = "occupied"
       /\ r.gameState = r.readState
       /\ r.writes = 0
       /\ r.sends = 0

\* C2: a place request for a cell that another request filled was rejected
OccupiedIsRejectedWitness ==
  \E r \in responses, a \in accepted :
    /\ r.kind = "place"
    /\ ~r.success
    /\ r.message = "occupied"
    /\ r.position = a.position
    /\ \E i \in 1..Len(r.readState.shapes) :
         r.readState.shapes[i].id = a.shapeId

\* C3: of the place requests that target one position at most one is
\* answered success = true
OneAcceptedPerPosition ==
  \A r1, r2 \in accepted : r1.position = r2.position => r1.seq = r2.seq

\* a shape of the state that request r read was accepted while the challenge
\* that r read was the current one (requests one at a time): it was placed
\* by a request later than the one for which the challenge was created, or,
\* for a challenge of the initial session, it belongs to its round
duringChallenge(shape, challenge) ==
  IF challenge.id >= challengeIdOf(NoRequest)
  THEN shapeIdOf(NoRequest) + challenge.id < shape.id + challengeIdOf(NoRequest)
  ELSE 10 * challenge.id < shape.id

\* what the score of its player has gained when request r is answered
gained(r) ==
  scoreOf(r.gameState.leaderboard, r.playerId)
    - scoreOf(r.readState.leaderboard, r.playerId)

\* C4: requests one at a time: the first accepted placement of a challenge
\* that satisfies one of its slots adds 2 to the score of its player, a
\* later one adds 1, an accepted placement that satisfies no slot changes
\* no score
ScoringRule ==
  \A r \in accepted :
    LET challenge == r.readState.currentChallenge
        satisfies == challenge # NoChallenge /\ slotsOf(challenge, r) # {}
        earlier ==
          \E k \in 1..Len(r.readState.shapes) :
            /\ duringChallenge(r.readState.shapes[k], challenge)
            /\ slotsOf(challenge, r.readState.shapes[k]) # {}
    IN  IF ~satisfies THEN r.gameState.leaderboard = r.readState.leaderboard
        ELSE IF earlier THEN gained(r) = 1
        ELSE gained(r) = 2

\* C5: of the accepted placements of different players on different slots
\* of one challenge at most one is awarded the bonus of the first placement
OneBonusPerChallenge ==
  \A r1, r2 \in accepted :
    ( /\ r1.playerId # r2.playerId
      /\ r1.position # r2.position
      /\ r1.readState.currentChallenge.id = r2.readState.currentChallenge.id
      /\ slotsOf(r1.readState.currentChallenge, r1) # {}
      /\ slotsOf(r2.readState.currentChallenge, r2) # {} )
    => ~(r1.isFirstPlacement /\ r2.isFirstPlacement)

\* score descending, equal scores by lastPlacement ascending
inOrder(leaderboard) ==
  \A i, j \in 1..Len(leaderboard) :
    i < j =>
      \/ leaderboard[i].score > leaderboard[j].score
      \/ /\ leaderboard[i].score = leaderboard[j].score
         /\ leaderboard[i].lastPlacement <= leaderboard[j].lastPlacement

\* the orders in which the entries of a leaderboard can stand
reordered(leaderboard) ==
  {[i \in 1..Len(leaderboard) |-> leaderboard[f[i]]] :
     f \in Permutations(1..Len(leaderboard))}

\* C6: the leaderboard in the store, in the state a handler is about to
\* save and in every response is in order, and updatePlayerScore puts the
\* stored entries in order whatever order they stand in
LeaderboardInOrder ==
  /\ inOrder(store.leaderboard)
  /\ \A p \in Procs : inOrder(gs[p].leaderboard) /\ inOrder(snap[p].leaderboard)
  /\ \A r \in responses : inOrder(r.gameState.leaderboard)
  /\ \A lb \in reordered(store.leaderboard) :
       \A i \in 1..NumPlayers : \A bonusPoints \in 1..2 :
         inOrder(updatePlayerScore([store EXCEPT !.leaderboard = lb],
                                   AllPlayers[i], bonusPoints,
                                   now).leaderboard)

\* C6: a scoring placement has left two players with the same score in the
\* store, the one who scored earlier first
LeaderboardInOrderWitness ==
  /\ Len(store.leaderboard) = 2
  /\ store.leaderboard[1].score = store.leaderboard[2].score
  /\ store.leaderboard[1].lastPlacement < store.leaderboard[2].lastPlacement
  /\ \E r \in accepted : r.gameState.leaderboard = store.leaderboard

\* C7: once the session is finished (round 5 of 5, the challenge cleared,
\* no request in progress) the stored challenge stays empty, the stored
\* round stays 5 and no request creates a challenge
FinishedStaysFinished ==
  finished =>
    /\ store.currentChallenge = NoChallenge
    /\ store.currentRound = TOTAL_ROUNDS
    /\ \A p \in Procs :
         /\ gs[p].currentChallenge = NoChallenge
         /\ cont[p] \notin {"create", "new", "newChallenge"}

\* C7: a join request and a place request that started after the session
\* was finished have both written the session
FinishedStaysFinishedWitness ==
  /\ finished
  /\ \E r1, r2 \in responses :
       /\ r1.afterFinish /\ r1.kind = "join" /\ r1.writes > 0
       /\ r2.afterFinish /\ r2.kind = "place" /\ r2.writes > 0

\* C8: while rounds are left no reader is answered with a session that has
\* a round and no challenge
NoGapObserved ==
  \A r \in responses :
    (r.kind = "init" /\ r.gameState.currentRound \in 1..(TOTAL_ROUNDS - 1))
    => r.gameState.currentChallenge # NoChallenge

\* request r is an accepted placement that satisfied the last open slot of
\* the challenge it read
lastSlotFilled(r) ==
  LET challenge == r.readState.currentChallenge
      placed == Append(r.readState.shapes,
                       [position |-> r.position, type |-> r.type,
                        color |-> r.color])
  IN  /\ r \in accepted
      /\ challenge # NoChallenge
      /\ openSlots(challenge, r.readState.shapes) # {}
      /\ openSlots(challenge, placed) = {}

\* C9: requests one at a time, rounds left: the response to the placement
\* that satisfies the last open slot carries the next round and a challenge
\* with another id and three slots
NextRoundInResponse ==
  \A r \in responses :
    (lastSlotFilled(r) /\ r.readState.currentRound < TOTAL_ROUNDS)
    => /\ r.gameState.currentRound = r.readState.currentRound + 1
       /\ r.gameState.currentChallenge # NoChallenge
       /\ r.gameState.currentChallenge.id # r.readState.currentChallenge.id
       /\ Len(r.gameState.currentChallenge.positions) = 3
       /\ Len(r.gameState.currentChallenge.shapes) = 3
       /\ Len(r.gameState.currentChallenge.colors) = 3

\* C9: a placement that satisfied the last open slot of round 4 is answered
NextRoundInResponseWitness ==
  \E r \in responses :
    /\ lastSlotFilled(r)
    /\ r.readState.currentRound < TOTAL_ROUNDS
    /\ r.gameState.currentRound = TOTAL_ROUNDS

\* C10: the stored round is at most totalRounds
RoundBounded == store.currentRound <= TOTAL_ROUNDS

\* C10: two placements completed the challenge of round 4 concurrently; one
\* created the challenge of round 5, the createChallenge of the other found
\* the rounds exhausted
RoundBoundedWitness ==
  /\ store.currentRound = TOTAL_ROUNDS
  /\ created = 1
  /\ \E p \in Procs :
       /\ req[p].exhausted
       /\ req[p].readState.currentRound = TOTAL_ROUNDS - 1

\* C11: the stored round never decreases from one state of the store to the
\* next
RoundNeverDecreases ==
  [][store'.currentRound >= store.currentRound]_vars

\* C12: no two entries of the stored leaderboard have the same player id
UniquePlayerIds ==
  \A i, j \in 1..Len(store.leaderboard) :
    i # j => store.leaderboard[i].playerId # store.leaderboard[j].playerId

\* C12: two players scored concurrently, both on the leaderboard they read
\* before either had written, and the store holds a leaderboard
UniquePlayerIdsWitness ==
  /\ store.leaderboard # <<>>
  /\ \E r1, r2 \in accepted :
       /\ r1.playerId # r2.playerId
       /\ r1.readState.leaderboard = r2.readState.leaderboard
       /\ gained(r1) > 0
       /\ gained(r2) > 0

\* C13: every entry of the stored leaderboard has a score of at least 0, and
\* from one state of the store to the next it stays with a score at least
\* as high
ScoresNeverDecrease ==
  [][\A i \in 1..Len(store.leaderboard) :
       /\ store.leaderboard[i].score >= 0
       /\ \E j \in 1..Len(store'.leaderboard) :
            /\ store'.leaderboard[j].playerId = store.leaderboard[i].playerId
            /\ store'.leaderboard[j].score >= store.leaderboard[i].score]_vars

\* C14: the shape of every place request answered success = true is in the
\* stored shape list
AcceptedShapesStay ==
  \A r \in accepted :
    \E i \in 1..Len(store.shapes) : store.shapes[i].id = r.shapeId

\* C15: requests one at a time: a join by a player who is in the players
\* list that the request read writes nothing and is answered with the same
\* list
JoinIsIdempotent ==
  \A r \in responses :
    (r.kind = "join" /\ r.playerId \in Range(r.readState.players))
    => /\ r.writes = 0
       /\ r.gameState.players = r.readState.players

\* C15: a player has joined twice, the first join wrote the session
JoinIsIdempotentWitness ==
  \E r1, r2 \in responses :
    /\ r1.kind = "join" /\ r2.kind = "join"
    /\ r1.playerId = r2.playerId
    /\ r1.seq < r2.seq
    /\ r1.writes > 0
    /\ r2.playerId \in Range(r2.readState.players)

\* C16: requests one at a time: while a join request is being handled no
\* step changes the stored shapes, challenge, leaderboard or round, and the
\* stored players only gain the player who joins
JoinChangesPlayersOnly ==
  [][\A p \in Procs :
       req[p].kind = "join"
       => /\ store'.shapes = store.shapes
          /\ store'.currentChallenge = store.currentChallenge
          /\ store'.leaderboard = store.leaderboard
          /\ store'.currentRound = store.currentRound
          /\ store'.players \in {store.players,
                                Append(store.players, req[p].playerId)}]_vars

\* C16: a join request has written the session and is answered with a
\* players list longer than the one it read
JoinChangesPlayersOnlyWitness ==
  \E r \in responses :
    /\ r.kind = "join"
    /\ r.writes = Len(Keys)
    /\ r.gameState.players = Append(r.readState.players, r.playerId)
    /\ r.readState.currentChallenge # NoChallenge

\* request r is a placement on a free slot position of the challenge it
\* read, of a kind or color that no slot on that position asks for
mismatchOnSlot(r) ==
  LET challenge == r.readState.currentChallenge
  IN  /\ r.kind = "place"
      /\ challenge # NoChallenge
      /\ r.position \in Range(challenge.positions)
      /\ slotsOf(challenge, r) = {}
      /\ ~isPositionOccupied(r.readState.shapes, r.position)

\* C20: requests one at a time: a placement on a free slot position with a
\* kind or color the slot does not ask for is accepted, its shape is the
\* last of the shapes, the leaderboard is the one it read, isFirstPlacement
\* is false, the open slots stay open and the challenge is not completed
MismatchIsAccepted ==
  \A r \in responses :
    mismatchOnSlot(r)
    => /\ r.success
       /\ Len(r.gameState.shapes) = Len(r.readState.shapes) + 1
       /\ LET shape == r.gameState.shapes[Len(r.gameState.shapes)]
          IN  /\ shape.id = r.shapeId
              /\ shape.position = r.position
              /\ shape.type = r.type
              /\ shape.color = r.color
       /\ r.gameState.leaderboard = r.readState.leaderboard
       /\ ~r.isFirstPlacement
       /\ ~r.completes
       /\ r.gameState.currentChallenge = r.readState.currentChallenge
       /\ r.gameState.currentRound = r.readState.currentRound
       /\ openSlots(r.readState.currentChallenge, r.gameState.shapes)
            = openSlots(r.readState.currentChallenge, r.readState.shapes)

\* C20: a placement of the wrong kind on the open slot of a challenge is
\* answered
MismatchIsAcceptedWitness ==
  \E r \in responses :
    /\ mismatchOnSlot(r)
    /\ r.success
    /\ openSlots(r.readState.currentChallenge, r.readState.shapes) # {}

\* C17: every request on a post reads a round of at least 1, reads the first
\* challenge with its 3 slots as long as the session it reads is in round 1
\* without a shape, and the player of every join that wrote the session is in
\* the stored players (initialization resets nothing afterwards)
NeverPartiallyInitialized ==
  /\ \A r \in responses :
       /\ r.readState.currentRound >= 1
       /\ (r.readState.currentRound = 1 /\ r.readState.shapes = <<>>)
            => Len(r.readState.currentChallenge.positions) = 3
  /\ \A r \in responses :
       (r.kind = "join" /\ r.writes > 0) => r.playerId \in Range(store.players)

\* what the code adds to the score of the player of placement r
expectedGain(r) ==
  IF ~isValidChallengeMove(r.readState,
                           [position |-> r.position, type |-> r.type,
                            color |-> r.color])
  THEN 0
  ELSE IF r.isFirstPlacement THEN 2 ELSE 1

\* C18: requests one at a time, no store failure: a placement on a free
\* position during which a publication threw is answered success = true, its
\* shape is in the store and in the response, its player has gained the
\* score of the move, and the challenge is advanced exactly when no slot of
\* it is open after the placement
SendFailureChangesNothing ==
  \A r \in responses :
    ( /\ r.kind = "place"
      /\ r.sendsFailed > 0
      /\ r.storeFailed = 0
      /\ ~isPositionOccupied(r.readState.shapes, r.position) )
    => /\ r.success
       /\ r.message = "placed"
       /\ \E i \in 1..Len(store.shapes) : store.shapes[i].id = r.shapeId
       /\ \E i \in 1..Len(r.gameState.shapes) :
            r.gameState.shapes[i].id = r.shapeId
       /\ gained(r) = expectedGain(r)
       /\ scoreOf(store.leaderboard, r.playerId)
            >= scoreOf(r.gameState.leaderboard, r.playerId)
       /\ r.completes =
            ( /\ r.readState.currentChallenge # NoChallenge
              /\ openSlots(r.readState.currentChallenge,
                           Append(r.readState.shapes,
                                  [position |-> r.position, type |-> r.type,
                                   color |-> r.color])) = {} )
       /\ IF ~r.completes
          THEN /\ r.gameState.currentChallenge = r.readState.currentChallenge
               /\ r.gameState.currentRound = r.readState.currentRound
          ELSE IF r.readState.currentRound < TOTAL_ROUNDS
          THEN /\ r.gameState.currentRound = r.readState.currentRound + 1
               /\ r.gameState.currentChallenge # NoChallenge
               /\ r.gameState.currentChallenge.id
                    # r.readState.currentChallenge.id
          ELSE /\ r.gameState.currentRound = r.readState.currentRound
               /\ r.gameState.currentChallenge = NoChallenge

\* C18: both publications of a placement that completed the challenge of
\* round 4 threw, and the response carries round 5
SendFailureChangesNothingWitness ==
  \E r \in accepted :
    /\ r.sendsFailed = 2
    /\ r.sends = 0
    /\ r.storeFailed = 0
    /\ r.completes
    /\ r.gameState.currentRound = r.readState.currentRound + 1

\* C19: no request is left unanswered by an error that nothing catches, and
\* every join or place request during which a store operation threw is
\* answered success = false
StoreFailureIsAnswered ==
  /\ \A p \in Procs : pc[p] # "crashed"
  /\ \A r \in responses :
       (r.kind \in {"join", "place"} /\ r.storeFailed > 0) => ~r.success

\* the places in the channel of the events of the given types that request
\* number seq has published
published(seq, types) ==
  {i \in 1..Len(channel) : channel[i].seq = seq /\ channel[i].type \in types}

\* the shapes that request r read, with the shape it places
afterPlacement(r) ==
  Append(r.readState.shapes,
         [position |-> r.position, type |-> r.type, color |-> r.color])

\* the placement of request r leaves no slot open of the challenge it read
satisfiesChallenge(r) ==
  /\ r.readState.currentChallenge # NoChallenge
  /\ openSlots(r.readState.currentChallenge, afterPlacement(r)) = {}

nextMove(r) ==
  LET challenge == store.currentChallenge
      open == IF challenge = NoChallenge THEN {}
              ELSE openSlots(challenge, store.shapes)
      free == {q \in RequestCells(LifeBounds.cells) :
                 ~isPositionOccupied(store.shapes, q)}
  IN  \/ /\ r.kind \in {"join", "init"}
         /\ Cardinality({a \in responses : a.kind \in {"join", "init"}})
              < MaxOtherLife
      \/ /\ r.kind = "place"
         /\ open # {}
         /\ \E i \in open :
              /\ \A j \in open : i <= j
              /\ r.position = challenge.positions[i]
              /\ r.type = challenge.shapes[i]
              /\ r.color = challenge.colors[i]
      \/ /\ r.kind = "place"
         /\ open = {}
         /\ r.position \in free
         /\ \A q \in free : cellIndex(r.position) <= cellIndex(q)

\* a request arrives at the initialized session
BeginLife ==
  /\ boot.pc = "returned"
  /\ Begin(1, LifeBounds)
  /\ nextMove(req'[1])

NextLife ==
  \/ Initialize(LifeBounds)
  \/ BeginLife
  \/ ReadKey(1)
  \/ InitRespond(1)
  \/ JoinMain(1)
  \/ JoinRespond(1)
  \/ PlaceMain(1, LifeBounds)
  \/ WriteKey(1)
  \/ SendShapePlace(1)
  \/ DelChallenge(1)
  \/ Delay(1)
  \/ CompleteCheck(1)
  \/ CreateMain(1, LifeBounds)
  \/ UpdatedRead(1)
  \/ SendTransition(1)

\* the life of a session: the post is created and initialized, then the
\* requests arrive one at a time
SpecLife == InitPost /\ [][NextLife]_vars

\* the challenges created for the session so far: the one of
\* initializeGameForPost and those of createChallenge
challengesCreated == (IF boot.sets >= 2 THEN 1 ELSE 0) + created

\* C22: requests one at a time on a session initialized at round 1: outside
\* the saveGameState of createChallenge the stored round is the number of
\* challenges created so far; at most totalRounds challenges are created;
\* between requests the session is finished (no challenge, round 5)
\* exactly when a placement has satisfied the challenge of round 5, and
\* then 5 challenges have been created
RoundCountsChallenges ==
  boot.pc = "returned" =>
    /\ ~(pc[1] = "save" /\ cont[1] = "create")
         => store.currentRound = challengesCreated
    /\ challengesCreated <= TOTAL_ROUNDS
    /\ pc[1] = "idle" =>
         /\ sessionFinished(store)
              <=> \E r \in accepted :
                    /\ r.readState.currentRound = TOTAL_ROUNDS
                    /\ satisfiesChallenge(r)
         /\ sessionFinished(store) => challengesCreated = TOTAL_ROUNDS
         /\ store.currentChallenge = NoChallenge => sessionFinished(store)

\* C22: the session was played from round 1 to its end, and a placement
\* made after the end has been accepted
RoundCountsChallengesWitness ==
  /\ boot.pc = "returned"
  /\ pc[1] = "idle"
  /\ sessionFinished(store)
  /\ created = TOTAL_ROUNDS - 1
  /\ \E r \in accepted :
       r.readState.currentRound = 1 /\ r.readState.shapes = <<>>
  /\ \E r \in accepted : r.afterFinish

\* the challenges that createChallenge has made: the request that made the
\* challenge, its id and the round it was made for
creations ==
  {[seq |-> r.seq, id |-> challengeIdOf(r), round |-> r.newRound] :
     r \in {a \in responses : a.newRound > 0}}
  \cup
  {[seq |-> req[p].seq, id |-> challengeIdOf(req[p]),
    round |-> req[p].newRound] : p \in {q \in Procs : req[q].newRound > 0}}

\* the challenges read and then satisfied by a placement
satisfiedIds ==
  {r.readState.currentChallenge.id :
     r \in {a \in accepted : satisfiesChallenge(a)}}
  \cup
  {req[p].readState.currentChallenge.id :
     p \in {q \in Procs : req[q].completes}}

\* C23: the session that a request has read with getGameState does not hold
\* a challenge made by createChallenge together with another round than the
\* one it was made for, nor the round of such a challenge together with no
\* challenge unless the challenge has been satisfied
SnapshotInSync ==
  \A r \in responses : \A c \in creations :
    /\ r.readState.currentChallenge.id = c.id
         => r.readState.currentRound = c.round
    /\ ( /\ r.readState.currentRound = c.round
         /\ r.readState.currentChallenge = NoChallenge )
         => c.id \in satisfiedIds

\* the requests whose createChallenge has made a challenge, each with the
\* challenge that its placement read and satisfied
creators ==
  {[seq |-> r.seq, satisfied |-> r.readState.currentChallenge.id,
    round |-> r.newRound] : r \in {a \in responses : a.newRound > 0}}
  \cup
  {[seq |-> req[p].seq, satisfied |-> req[p].readState.currentChallenge.id,
    round |-> req[p].newRound] : p \in {q \in Procs : req[q].newRound > 0}}

\* C24: concurrent place requests: createChallenge makes at most one
\* challenge for a satisfied challenge and at most one challenge for a
\* round, so that no challenge is replaced by another one made for the same
\* round
OneAdvancePerCompletion ==
  \A c1, c2 \in creators :
    (c1.satisfied = c2.satisfied \/ c1.round = c2.round) => c1.seq = c2.seq

\* C25: requests one at a time: a step that clears or replaces the stored
\* challenge is taken for a place request that was not rejected, whose shape
\* is stored, when for each of the 3 slots of the challenge a stored shape
\* has the position, kind and color of the slot; and the completion check
\* of a session without a challenge answers false
ChallengeEndsWhenSatisfied ==
  [][/\ ( /\ store.currentChallenge # NoChallenge
          /\ store'.currentChallenge # store.currentChallenge )
        => /\ store'.currentChallenge = NoChallenge
           /\ Len(store.currentChallenge.positions) = 3
           /\ \A i \in 1..3 :
                \E k \in 1..Len(store.shapes) :
                  /\ store.shapes[k].position
                       = store.currentChallenge.positions[i]
                  /\ store.shapes[k].type = store.currentChallenge.shapes[i]
                  /\ store.shapes[k].color = store.currentChallenge.colors[i]
           /\ \E p \in Procs :
                /\ req[p].kind = "place"
                /\ ~isPositionOccupied(req[p].readState.shapes,
                                       req[p].position)
                /\ \E k \in 1..Len(store.shapes) :
                     store.shapes[k].id = req[p].shapeId
     /\ \A p \in Procs :
          gs[p].currentChallenge = NoChallenge
          => ~checkChallengeCompletion(gs[p])]_vars

\* C25: a join and a placement that satisfied no slot have left the
\* challenge they read in the store, and a placement that satisfied the
\* last open slot has ended it
ChallengeEndsWhenSatisfiedWitness ==
  /\ \E r \in responses :
       /\ r.kind = "join"
       /\ r.writes > 0
       /\ r.gameState.currentChallenge # NoChallenge
       /\ r.gameState.currentChallenge = r.readState.currentChallenge
  /\ \E r \in accepted :
       /\ satisfiesChallenge(r)
       /\ r.completes
       /\ store.currentChallenge # r.readState.currentChallenge

\* C26: requests one at a time: the saveGameState of createChallenge leaves
\* the stored shapes, players and leaderboard as they are, and when
\* createChallenge returns its challenge the store holds that challenge,
\* with 3 slots, and the round that the request read plus 1
CreateChallengeEffect ==
  [][\A p \in Procs :
       (pc[p] = "save" /\ cont[p] = "create")
       => /\ store'.shapes = store.shapes
          /\ store'.players = store.players
          /\ store'.leaderboard = store.leaderboard
          /\ pc'[p] # "save"
               => /\ store'.currentChallenge # NoChallenge
                  /\ store'.currentChallenge = snap[p].currentChallenge
                  /\ store'.currentChallenge.id = challengeIdOf(req[p])
                  /\ Len(store'.currentChallenge.positions) = 3
                  /\ Len(store'.currentChallenge.shapes) = 3
                  /\ Len(store'.currentChallenge.colors) = 3
                  /\ store'.currentRound
                       = req[p].readState.currentRound + 1]_vars

\* C26: createChallenge has returned the challenge of round 5 on a session
\* with shapes, players and a leaderboard
CreateChallengeEffectWitness ==
  \E p \in Procs :
    /\ pc[p] = "delay"
    /\ cont[p] = "new"
    /\ store.currentRound = TOTAL_ROUNDS
    /\ store.currentChallenge.id = challengeIdOf(req[p])
    /\ store.shapes # <<>>
    /\ store.players # <<>>
    /\ store.leaderboard # <<>>

\* C27: the step of createChallenge on a session that it has read with a
\* round of at least totalRounds returns null (the route goes on to the
\* gameComplete broadcast), leaves round, challenge, shapes, players and
\* leaderboard in the store as they are and makes no challenge; the request
\* has then written its own saveGameState and the redis.del only
NoChallengeAfterLastRound ==
  [][\A p \in Procs :
       /\ ( /\ LastRead(p, "create")
            /\ Snapshot(p).currentRound >= TOTAL_ROUNDS
            /\ <<pc'[p], cont'[p]>> # <<pc[p], cont[p]>> )
          => /\ store' = store
             /\ created' = created
             /\ pc'[p] = "get"
             /\ cont'[p] = "done"
             /\ req'[p].exhausted
             /\ req'[p].newRound = 0
             /\ req'[p].writes = req[p].writes
       /\ req[p].exhausted
          => /\ req[p].writes = Len(Keys) + 1
             /\ req[p].newRound = 0
             /\ cont[p] \in {"done", "gameComplete"}]_vars

\* C27: createChallenge has returned null to a request that completed the
\* challenge of round 4, because another request had created the challenge
\* of round 5, which is in the store
NoChallengeAfterLastRoundWitness ==
  \E p \in Procs :
    /\ req[p].exhausted
    /\ pc[p] = "send"
    /\ cont[p] = "gameComplete"
    /\ store.currentRound = TOTAL_ROUNDS
    /\ store.currentChallenge # NoChallenge
    /\ snap[p].currentChallenge = store.currentChallenge

\* ------------------------------------------------------------------------
\* Slot generation, sample by sample: the loops of createChallenge (lines
\* 183-201) and of initializeGameForPost (api.ts, lines 121-138), and the
\* challenge built from the positions (lines 203-210, api.ts 141-148)
\* ------------------------------------------------------------------------
\* the test of the loop looking at the placed shapes only
slotCollides_shapesOnly(caller, shapes, positions, position) ==
  caller = "createChallenge" /\ isPositionOccupied(shapes, position)

\* lines 196-197; initializeGameForPost does not look at the shapes (api.ts,
\* line 134)
slotCollides(caller, shapes, positions, position) ==
  \/ caller = "createChallenge" /\ isPositionOccupied(shapes, position)
  \/ \E i \in 1..Len(positions) : samePosition(positions[i], position)

\* the loop without the bound on its attempts
keepSampling_unbounded(attempts, collides) == collides

\* the condition of the do ... while, lines 194-198
keepSampling(attempts, collides) == attempts < maxAttempts /\ collides

\* shapes on the first k cells
occupiedCells(k) ==
  [j \in 1..k |->
     [id |-> j, type |-> ShapeTypes[1], color |-> ShapeColors[1],
      position |-> Cells[j], playerId |-> AllPlayers[1], timestamp |-> 0]]

\* the position is the position of a placed shape or of a slot chosen
\* before
taken(position) ==
  \/ \E k \in 1..Len(store.shapes) : store.shapes[k].position = position
  \/ \E k \in 1..Len(loop.positions) : loop.positions[k] = position

\* createChallenge has read a session whose challenge was cleared, with
\* shapes on none, some or all of the cells; initializeGameForPost has set
\* the round of a new post
InitSample ==
  /\ \E k \in 0..NumSampleCellsLoop :
     \E caller \in {"createChallenge", "initializeGameForPost"} :
       /\ caller = "initializeGameForPost" => k = 0
       /\ store = [EmptyState EXCEPT !.shapes = occupiedCells(k),
                                     !.currentRound = 1]
       /\ boot = IF caller = "initializeGameForPost"
                 THEN [pc |-> "running", sets |-> 1]
                 ELSE [pc |-> "returned", sets |-> Len(BootKeys)]
       /\ loop = [NoLoop EXCEPT !.caller = caller, !.pc = "sample"]
  /\ legacy = NoLegacy
  /\ now = 1
  /\ timer = [p \in Procs |-> 0]
  /\ pc = [p \in Procs |-> "idle"]
  /\ cont = [p \in Procs |-> "none"]
  /\ kidx = [p \in Procs |-> 0]
  /\ snap = [p \in Procs |-> EmptyState]
  /\ gs = [p \in Procs |-> EmptyState]
  /\ req = [p \in Procs |-> NoRequest]
  /\ started = 0
  /\ created = 0
  /\ responses = {}
  /\ channel = <<>>
  /\ finished = FALSE

\* one pass of the do ... while: a position is sampled, the attempts are
\* counted and the condition is tested; when the loop ends the position is
\* pushed (line 200).  total counts the samples of the challenge, sawFree
\* tells that a sample of this slot was taken by nothing, clean that the
\* positions pushed so far were taken by nothing when they were pushed
Sample ==
  /\ loop.pc = "sample"
  /\ \E position \in getRandomPosition(NumSampleCellsLoop) :
       LET attempts == loop.attempts + 1
           collides == slotCollides(loop.caller, store.shapes, loop.positions,
                                    position)
       IN  IF keepSampling(attempts, collides)
           THEN loop' = [loop EXCEPT !.attempts = attempts,
                                     !.total = @ + 1,
                                     !.sawFree = @ \/ ~taken(position)]
           ELSE loop' = [loop EXCEPT !.attempts = 0,
                                     !.total = @ + 1,
                                     !.positions = Append(@, position),
                                     !.i = @ + 1,
                                     !.sawFree = FALSE,
                                     !.clean = @ /\ ~taken(position),
                                     !.pc = IF loop.i + 1 < 3
                                            THEN "sample" ELSE "build"]
  /\ UNCHANGED <<store, now, timer, pc, cont, kidx, snap, gs, req, started,
                 created, responses, channel, finished, boot,
                 legacy>>

\* lines 203-210: the challenge is built from the positions
Build ==
  /\ loop.pc = "build"
  /\ \E shapes \in [1..3 -> Types(NumTypes)] :
     \E colors \in [1..3 -> getRandomColor] :
       loop' = [loop EXCEPT
                  !.challenge = [id |-> 1, positions |-> loop.positions,
                                 shapes |-> shapes, colors |-> colors,
                                 startTime |-> now, duration |-> 0],
                  !.pc = "done"]
  /\ UNCHANGED <<store, now, timer, pc, cont, kidx, snap, gs, req, started,
                 created, responses, channel, finished, boot,
                 legacy>>

NextSample ==
  \/ Sample
  \/ Build

\* the loop is synchronous code: it goes on until it is done
SpecSample == InitSample /\ [][NextSample]_vars /\ WF_vars(NextSample)

\* C28: slot generation takes at most 100 samples for a slot and at most
\* 300 for a challenge, its positions are cells of the grid, the challenge
\* it builds has 3 positions, 3 kinds and 3 colors, and it ends, also when
\* every cell is taken
SlotGenerationTerminates ==
  /\ [](/\ loop.attempts < maxAttempts
        /\ loop.i <= 3
        /\ loop.total <= maxAttempts * loop.i + loop.attempts
        /\ loop.total <= 3 * maxAttempts
        /\ Len(loop.positions) = loop.i
        /\ \A k \in 1..Len(loop.positions) : loop.positions[k] \in Grid
        /\ loop.pc = "done"
             => /\ Len(loop.challenge.positions) = 3
                /\ Len(loop.challenge.shapes) = 3
                /\ Len(loop.challenge.colors) = 3
                /\ loop.challenge.positions = loop.positions)
  /\ <>(loop.pc = "done")

\* C28: with a shape on every cell createChallenge has taken 300 samples
\* and built a challenge with 3 slots
SlotGenerationTerminatesWitness ==
  /\ loop.caller = "createChallenge"
  /\ loop.pc = "done"
  /\ \A q \in getRandomPosition(NumSampleCellsLoop) :
       isPositionOccupied(store.shapes, q)
  /\ loop.total = 3 * maxAttempts
  /\ Len(loop.challenge.positions) = 3

\* C29: a position pushed as a slot is the position of a placed shape or of
\* an earlier slot only when it is the 100th sample of its slot; no sample
\* that is taken by nothing is thrown away, so one such sample among the
\* first 99 makes the slot free of collisions; and when no slot was pushed
\* on a taken position the slot positions are pairwise distinct and no
\* placed shape is on one of them
SlotCollidesOnlyWhenExhausted ==
  /\ [][loop'.i = loop.i + 1
         => (taken(loop'.positions[loop'.i])
               => loop.attempts + 1 = maxAttempts)]_vars
  /\ [](~loop.sawFree)
  /\ [](loop.clean
         => /\ \A j, k \in 1..Len(loop.positions) :
                 j # k => loop.positions[j] # loop.positions[k]
            /\ \A j \in 1..Len(loop.positions) :
               \A k \in 1..Len(store.shapes) :
                 store.shapes[k].position # loop.positions[j])

\* C29: createChallenge has built a challenge in a session with placed
\* shapes after samples that collided: its 3 slots are distinct and on no
\* shape
SlotCollidesOnlyWhenExhaustedWitness ==
  /\ loop.caller = "createChallenge"
  /\ loop.pc = "done"
  /\ loop.clean
  /\ Len(store.shapes) >= 1
  /\ loop.total > 3
  /\ Cardinality({loop.challenge.positions[k] : k \in 1..3}) = 3
  /\ \A k \in 1..3 :
       ~isPositionOccupied(store.shapes, loop.challenge.positions[k])

\* C30: every position held in the session, of a placed shape and of a slot
\* of the challenge, has x and z in -10..9 and y in 0..10, and no place
\* request with a position outside this range has added a shape
PositionsInRange ==
  /\ \A k \in 1..Len(store.shapes) : store.shapes[k].position \in Grid
  /\ store.currentChallenge # NoChallenge
       => \A k \in 1..Len(store.currentChallenge.positions) :
            store.currentChallenge.positions[k] \in Grid
  /\ \A r \in responses :
       r.kind = "place" /\ r.position \notin Grid => ~r.success

\* C31: a join request takes nothing away that a place request has written:
\* when the requests of a behaviour are answered and at most one of them was
\* a place request, the shape of that request, if it was answered with
\* success, is in the stored shapes, and the stored leaderboard holds the
\* points it scored
JoinKeepsPlacements ==
  (/\ \A p \in Procs : pc[p] = "idle"
   /\ Cardinality({r \in responses : r.kind = "place"}) <= 1)
  => \A r \in responses :
       r.kind = "place" /\ r.success
         => /\ \E k \in 1..Len(store.shapes) : store.shapes[k].id = r.shapeId
            /\ \A k \in 1..Len(r.gameState.leaderboard) :
                 \E j \in 1..Len(store.leaderboard) :
                   /\ store.leaderboard[j].playerId
                        = r.gameState.leaderboard[k].playerId
                   /\ store.leaderboard[j].score
                        >= r.gameState.leaderboard[k].score

\* the slots of the challenge that no shape satisfies and whose position
\* holds a shape
blockedSlots(challenge, shapes) ==
  {i \in openSlots(challenge, shapes) :
     \E k \in 1..Len(shapes) : shapes[k].position = challenge.positions[i]}

hasBlockedSlot(gameState) ==
  /\ gameState.currentChallenge # NoChallenge
  /\ blockedSlots(gameState.currentChallenge, gameState.shapes) # {}

\* C32: requests one at a time: an accepted placement whose kind or color
\* is not the one its slot asks for leaves the slot blocked; a request that
\* reads a challenge with a blocked slot does not complete it, leaves the
\* challenge and the round as they are and the slot blocked, and is
\* rejected as occupied when it places on the position of the slot; the
\* session is not finished while a slot of its challenge is blocked
BlockedChallengeStays ==
  /\ \A r \in responses :
       mismatchOnSlot(r) /\ r.success => hasBlockedSlot(r.gameState)
  /\ \A r \in responses :
       hasBlockedSlot(r.readState)
       => LET challenge == r.readState.currentChallenge
              blocked == blockedSlots(challenge, r.readState.shapes)
          IN  /\ ~r.completes
              /\ r.gameState.currentChallenge = challenge
              /\ r.gameState.currentRound = r.readState.currentRound
              /\ blocked \subseteq blockedSlots(challenge, r.gameState.shapes)
              /\ (/\ r.kind = "place"
                  /\ \E i \in blocked : challenge.positions[i] = r.position)
                 => ~r.success /\ r.message = "occupied"
  /\ (pc[1] = "idle" /\ hasBlockedSlot(store)) => ~finished

\* C32: a placement on a slot blocked by a shape of the wrong kind was
\* rejected as occupied, and a placement that satisfied the last other slot
\* of a challenge with a blocked slot did not complete it
BlockedChallengeStaysWitness ==
  /\ \E r \in responses :
       /\ hasBlockedSlot(r.readState)
       /\ r.kind = "place"
       /\ \E i \in blockedSlots(r.readState.currentChallenge,
                                 r.readState.shapes) :
            r.readState.currentChallenge.positions[i] = r.position
       /\ ~r.success
  /\ \E r \in responses :
       /\ mismatchOnSlot(r)
       /\ r.success
       /\ openSlots(r.readState.currentChallenge, r.gameState.shapes)
            = blockedSlots(r.readState.currentChallenge, r.gameState.shapes)

RECURSIVE totalScore(_)
totalScore(leaderboard) ==
  IF leaderboard = <<>> THEN 0
  ELSE leaderboard[1].score + totalScore(Tail(leaderboard))

\* C33: requests one at a time: a placement scores at most 2 points, and
\* the scores of the stored leaderboard add up to at most 4 points for
\* each challenge created so far, which the stored round counts, hence to
\* at most 4 * TOTAL_ROUNDS
FourPointsPerChallenge ==
  /\ totalScore(store.leaderboard) <= 4 * store.currentRound
  /\ totalScore(store.leaderboard) <= 4 * TOTAL_ROUNDS
  /\ \A r \in responses :
       r.kind = "place"
         => totalScore(r.gameState.leaderboard)
              <= totalScore(r.readState.leaderboard) + 2

\* C33: the placement that satisfied the last challenge has brought the
\* scores to 4 points for each challenge
FourPointsPerChallengeWitness ==
  /\ pc[1] = "idle"
  /\ totalScore(store.leaderboard) = 4 * TOTAL_ROUNDS
  /\ \E r \in responses :
       /\ r.kind = "place"
       /\ r.success
       /\ r.completes
       /\ totalScore(r.gameState.leaderboard)
            > totalScore(r.readState.leaderboard)

\* C34: a place request that has read a session without a challenge is
\* accepted when its position is free, its shape is the last of the shapes
\* it answers with, isFirstPlacement is false, it completes nothing, and
\* the writes of its saveGameState leave the stored leaderboard, round and
\* challenge as they are
NoChallengeNoScore ==
  /\ [](\A r \in responses :
         (/\ r.kind = "place"
          /\ r.readState.currentChallenge = NoChallenge
          /\ ~isPositionOccupied(r.readState.shapes, r.position))
         => /\ r.success
            /\ r.gameState.shapes # <<>>
            /\ r.gameState.shapes[Len(r.gameState.shapes)].id = r.shapeId
            /\ ~r.isFirstPlacement
            /\ ~r.completes
            /\ r.gameState.leaderboard = r.readState.leaderboard
            /\ r.gameState.currentRound = r.readState.currentRound
            /\ r.gameState.currentChallenge = NoChallenge)
  /\ [][\A p \in Procs :
         (/\ pc[p] = "save"
          /\ cont[p] = "place"
          /\ req[p].readState.currentChallenge = NoChallenge
          /\ req'[p].writes = req[p].writes + 1)
         => /\ store'.leaderboard = store.leaderboard
            /\ store'.currentRound = store.currentRound
            /\ store'.currentChallenge = store.currentChallenge]_vars

\* the shape of a place request
shapeOf(r) ==
  [id |-> r.shapeId, type |-> r.type, color |-> r.color,
   position |-> r.position, playerId |-> r.playerId]

\* C35: requests one at a time: isFirstPlacement of a place response is
\* true exactly when the placement was a valid challenge move that added 2
\* points to the score of its player; it is the value of the two tests on
\* the session the request read, before its shape was inserted; and it is
\* false for a placement that matches no slot and for a rejected one
FirstPlacementFlag ==
  \A r \in responses :
    r.kind = "place"
    => /\ r.isFirstPlacement
            <=> (/\ r.success
                 /\ isValidChallengeMove(r.readState, shapeOf(r))
                 /\ gained(r) = 2)
       /\ r.success
            => (r.isFirstPlacement
                  <=> (/\ isValidChallengeMove(r.readState, shapeOf(r))
                       /\ \A k \in 1..Len(r.readState.shapes) :
                            \/ r.readState.shapes[k].timestamp
                                 < r.readState.currentChallenge.startTime
                            \/ slotsOf(r.readState.currentChallenge,
                                       r.readState.shapes[k]) = {}))
       /\ (r.readState.currentChallenge # NoChallenge
           /\ slotsOf(r.readState.currentChallenge, shapeOf(r)) = {})
          => ~r.isFirstPlacement /\ gained(r) = 0

\* C35: in one challenge a placement was the first valid one and added 2
\* points, a later valid one added 1 point, and a placement that matched no
\* slot of a challenge without a valid placement added none
FirstPlacementFlagWitness ==
  /\ \E r \in responses :
       r.kind = "place" /\ r.success /\ r.isFirstPlacement /\ gained(r) = 2
  /\ \E r \in responses :
       /\ r.kind = "place"
       /\ r.success
       /\ ~r.isFirstPlacement
       /\ isValidChallengeMove(r.readState, shapeOf(r))
       /\ gained(r) = 1
  /\ \E r \in responses :
       /\ r.kind = "place"
       /\ r.success
       /\ ~r.isFirstPlacement
       /\ r.readState.currentChallenge # NoChallenge
       /\ slotsOf(r.readState.currentChallenge, shapeOf(r)) = {}
       /\ \A k \in 1..Len(r.readState.shapes) :
            slotsOf(r.readState.currentChallenge, r.readState.shapes[k]) = {}

\* C36: a gameComplete event carries a finished session, the last round and
\* no challenge; and when no request is in progress the session has a
\* challenge as long as rounds remain
GameCompleteMeansFinished ==
  /\ \A k \in 1..Len(channel) :
       channel[k].type = "gameComplete"
         => /\ channel[k].currentRound = TOTAL_ROUNDS
            /\ channel[k].challengeId = NoChallenge.id
  /\ (/\ \A p \in Procs : pc[p] = "idle"
      /\ store.currentRound < TOTAL_ROUNDS)
     => store.currentChallenge # NoChallenge

\* C37: requests one at a time: a place request answered with success =
\* false has added nothing: the session its response carries has the shapes
\* and the leaderboard the request read, if it has read the session, and
\* its shape is not in the store
FailedPlaceAddsNothing ==
  \A r \in responses :
    r.kind = "place" /\ ~r.success
    => /\ r.readState # EmptyState
            => /\ r.gameState.shapes = r.readState.shapes
               /\ r.gameState.leaderboard = r.readState.leaderboard
       /\ \A k \in 1..Len(store.shapes) :
            store.shapes[k].id # shapeIdOf(r)

\* ------------------------------------------------------------------------
\* The timer-based server (part_001): the timers of one session.  legacy
\* holds the players and the round of the session, whether it has a
\* challenge, the timer that challengeTimers holds for the post (0 for no
\* entry), the timers that setTimeout has armed and that have neither fired
\* nor been cleared, the number of timers armed so far, whether a signal
\* handler has run, and whether a callback has fired after SIGTERM.  Every
\* handler and every callback runs as one step; a pending timer fires at
\* any later step.
\* ------------------------------------------------------------------------
LegacyUsers == {AllPlayers[i] : i \in 1..Min(NumPlayers, Len(AllPlayers))}

\* clearTimeout: a timer that has fired or was cleared is not pending
clearTimeout(pending, id) == {t \in pending : t.id # id}

\* setTimeout: the timers get the numbers 1, 2, ...
setTimeout(l, kind) ==
  [l EXCEPT !.pending = @ \cup {[id |-> l.armed + 1, kind |-> kind]},
            !.armed = @ + 1]

\* createChallenge, lines 94-164: null when the rounds are over; else the
\* round and the challenge are stored, the timer that challengeTimers
\* holds is cleared, the expiry timer is armed and entered
legacyCreateChallenge(l) ==
  IF l.round >= TOTAL_ROUNDS THEN l
  ELSE LET made == [l EXCEPT !.round = @ + 1, !.challenge = TRUE,
                             !.pending = clearTimeout(@, l.registered)]
           armed == setTimeout(made, "expiry")
       IN  [armed EXCEPT !.registered = armed.armed]

\* a restarted server finds the session in the store and has no timers
InitLegacy ==
  {[NoLegacy EXCEPT !.round = r, !.players = u] :
     r \in {0, TOTAL_ROUNDS - 1, TOTAL_ROUNDS},
     u \in {{}, {AllPlayers[1]}}}

InitTimer ==
  /\ legacy \in InitLegacy
  /\ store = EmptyState
  /\ now = 1
  /\ timer = [p \in Procs |-> 0]
  /\ pc = [p \in Procs |-> "idle"]
  /\ cont = [p \in Procs |-> "none"]
  /\ kidx = [p \in Procs |-> 0]
  /\ snap = [p \in Procs |-> EmptyState]
  /\ gs = [p \in Procs |-> EmptyState]
  /\ req = [p \in Procs |-> NoRequest]
  /\ started = 0
  /\ created = 0
  /\ responses = {}
  /\ channel = <<>>
  /\ finished = FALSE
  /\ boot = [pc |-> "returned", sets |-> Len(BootKeys)]
  /\ loop = NoLoop

\* POST /api/join, lines 306-348: the player is added; the first challenge
\* is scheduled when the session has one player, no challenge and no entry
\* in challengeTimers.  The timer of line 330 is not entered
LegacyJoin(u) ==
  /\ legacy.stopped = "no"
  /\ legacy.armed < MaxTimersLegacy
  /\ LET joined == [legacy EXCEPT !.players = @ \cup {u}]
     IN  legacy' = IF /\ Cardinality(joined.players) = 1
                      /\ ~joined.challenge
                      /\ joined.registered = 0
                   THEN setTimeout(joined, "first")
                   ELSE joined
  /\ UNCHANGED <<store, now, timer, pc, cont, kidx, snap, gs, req, started,
                 created, responses, channel, finished, boot, loop>>

\* POST /api/place with a placement that completes the challenge, lines
\* 398-405 and completeChallengeAndScheduleNext, lines 198-220: the
\* challenge is deleted, the entered timer is cleared and removed, and the
\* next challenge is scheduled and its timer entered while rounds remain
LegacyComplete ==
  /\ legacy.stopped = "no"
  /\ legacy.armed < MaxTimersLegacy
  /\ legacy.challenge
  /\ LET cleared == [legacy EXCEPT
                       !.challenge = FALSE,
                       !.pending = clearTimeout(@, legacy.registered),
                       !.registered = 0]
         armed == setTimeout(cleared, "next")
     IN  legacy' = IF cleared.round < TOTAL_ROUNDS
                   THEN [armed EXCEPT !.registered = armed.armed]
                   ELSE cleared
  /\ UNCHANGED <<store, now, timer, pc, cont, kidx, snap, gs, req, started,
                 created, responses, channel, finished, boot, loop>>

\* a callback has run while the process lives on after SIGTERM
fires(l) == [l EXCEPT !.firedAfter = @ \/ l.stopped = "sigterm"]

\* the callback of the expiry timer, lines 147-160: the challenge is
\* deleted, the entry of the post is removed, and the next challenge is
\* scheduled with a timer that is not entered
LegacyExpire ==
  /\ legacy.stopped # "exit"
  /\ legacy.armed < MaxTimersLegacy
  /\ \E t \in legacy.pending :
       /\ t.kind = "expiry"
       /\ LET fired == [fires(legacy) EXCEPT
                          !.pending = @ \ {t},
                          !.challenge = FALSE,
                          !.registered = 0]
          IN  legacy' = IF fired.round < TOTAL_ROUNDS
                        THEN setTimeout(fired, "followUp")
                        ELSE fired
  /\ UNCHANGED <<store, now, timer, pc, cont, kidx, snap, gs, req, started,
                 created, responses, channel, finished, boot, loop>>

\* the callbacks of lines 154-156, 212-214 and 330-332: createChallenge
LegacyCreate ==
  /\ legacy.stopped # "exit"
  /\ legacy.armed < MaxTimersLegacy
  /\ \E t \in legacy.pending :
       /\ t.kind \in {"first", "followUp", "next"}
       /\ legacy' = legacyCreateChallenge(
                      [fires(legacy) EXCEPT !.pending = @ \ {t}])
  /\ UNCHANGED <<store, now, timer, pc, cont, kidx, snap, gs, req, started,
                 created, responses, channel, finished, boot, loop>>

\* process.on('SIGTERM'), lines 464-467: the entered timers are cleared
\* and challengeTimers is emptied; the process lives on
LegacySigterm ==
  /\ legacy.stopped = "no"
  /\ legacy' = [legacy EXCEPT !.pending = clearTimeout(@, legacy.registered),
                              !.registered = 0,
                              !.stopped = "sigterm"]
  /\ UNCHANGED <<store, now, timer, pc, cont, kidx, snap, gs, req, started,
                 created, responses, channel, finished, boot, loop>>

\* process.on('SIGINT'), lines 469-473: the same and process.exit(0), with
\* which every timer of the process is gone
LegacySigint ==
  /\ legacy.stopped = "no"
  /\ legacy' = [legacy EXCEPT !.pending = {},
                              !.registered = 0,
                              !.stopped = "exit"]
  /\ UNCHANGED <<store, now, timer, pc, cont, kidx, snap, gs, req, started,
                 created, responses, channel, finished, boot, loop>>

NextTimer ==
  \/ \E u \in LegacyUsers : LegacyJoin(u)
  \/ LegacyComplete
  \/ LegacyExpire
  \/ LegacyCreate
  \/ LegacySigterm
  \/ LegacySigint

\* the timer-based server: joins, completed challenges, timers that fire
\* and signals, one at a time
SpecTimer == InitTimer /\ [][NextTimer]_vars

\* C38: at most one callback that clears or creates a challenge is pending
\* for the session
OneTimerPerSession == Cardinality(legacy.pending) <= 1

\* C39: after a signal handler has run no timer is pending and no callback
\* fires
NoTimerAfterShutdown ==
  /\ legacy.stopped # "no" => legacy.pending = {}
  /\ ~legacy.firedAfter

====
